---- MODULE Spec2Model ----
(***************************************************************************)
(* A model of Kennel's deployment pipeline: the Store (the database of     *)
(* record with its constraints), the allocators, the webhook ingress, the  *)
(* build worker pool, the deployer, the teardown worker and the router's   *)
(* update handler.                                                         *)
(*                                                                         *)
(* Every `.await` on the Store, on a channel or on the supervisor is a     *)
(* suspension point of the Rust code; one action of the model is the code  *)
(* between two suspension points that matter to another task.              *)
(***************************************************************************)
EXTENDS Integers, Sequences, FiniteSets, TLC

\* ------------------------------------------------------------------------
\* Program constants
\* ------------------------------------------------------------------------

\* kennel-store/src/port_allocations.rs: const PORT_MIN
PORT_MIN == 18000

\* kennel-config/src/constants.rs: PORT_RANGE_END (= PORT_MAX of the store)
PORT_RANGE_END == 19999

\* kennel-store/src/preview_databases.rs: const VALKEY_DB_MIN / VALKEY_DB_MAX
VALKEY_DB_MIN == 0

VALKEY_DB_MAX == 15

\* kennel-config/src/constants.rs: DEFAULT_MAX_CONCURRENT_BUILDS
DEFAULT_MAX_CONCURRENT_BUILDS == 2

\* kennel-config/src/constants.rs: capacities of the mpsc channels
BUILD_CHANNEL_CAPACITY == 1000

DEPLOY_CHANNEL_CAPACITY == 100

TEARDOWN_CHANNEL_CAPACITY == 100

\* ------------------------------------------------------------------------
\* Bounds of the model
\* ------------------------------------------------------------------------

\* Number of ports of the range [PORT_MIN, PORT_MAX] the model keeps, so
\* that exhaustion of the pool is a reachable case.
PortPoolSize == 2

\* Concurrent callers of the Store's allocator API.
NumCallers == 2

\* Commits the forge delivers webhooks for.
NumCommits == 2

\* Webhook deliveries handled at the same time.
NumHandlers == 2

\* Failed health probes in a row of one domain that the model follows.
MaxProbeFailures == 4

\* kennel_config::constants::MAX_CONSECUTIVE_HEALTH_FAILURES
MAX_CONSECUTIVE_HEALTH_FAILURES == 3

\* PORT_MAX of the store, scaled to the pool the model keeps.
PORT_MAX == PORT_MIN + PortPoolSize - 1

\* SQL NULL / Option::None of a text column and of an integer column.
Null == "null"

NoInt == -1

\* Option::None of a path.
NoPath == <<>>

VARIABLES
    \* ---- Store tables
    builds,             \* set of build rows
    nextBuildId,        \* the auto-increment of builds.id
    build_results,      \* set of rows [build_id, service_name, status, store_path]
    deployments,        \* set of deployment rows
    nextDeploymentId,   \* the auto-increment of deployments.id
    port_allocations,   \* set of rows [port, deployment_id]
    preview_databases,  \* set of rows [project_name, branch, database_name, valkey_db]
    \* ---- filesystem and supervisor
    work_dirs,          \* build id -> the manifest cloned into {work_dir}/{build_id}
    units,              \* unit name -> [store_path, port, running] of the installed unit file
    sites,              \* site link path -> store path the symlink resolves to
    secrets,            \* set of env-file paths
    users,              \* set of OS user names
    \* ---- channels
    build_queue,        \* mpsc channel of build ids
    deploy_queue,       \* mpsc channel of DeploymentRequest
    teardown_queue,     \* mpsc channel of deployment ids
    router_updates,     \* broadcast channel of RouterUpdate
    \* ---- tasks
    wh,                 \* webhook handlers, one request in flight per slot
    cancel,             \* the cancel endpoint's request in flight
    dispatcher,         \* run_worker_pool's loop
    permits,            \* free permits of the build semaphore
    tasks,              \* build id -> the spawned process_build task
    dep,                \* run_deployer's loop
    td,                 \* run_teardown_worker's loop
    cleanup,            \* run_cleanup_job's loop
    port_allocator,     \* the deployer's in-memory PortAllocator (a HashSet<u16>)
    routes,             \* the router's RoutingTable: set of routes, one per domain
    \* ---- callers of PortAllocationRepository (one call in flight per caller)
    pa_call,
    \* ---- callers of PreviewDatabaseRepository
    pd_call,
    \* ---- history
    pa_live,            \* per port, successful allocate_port returns not yet released
    build_sent,         \* per build id, the number of sends on the build channel
    finished,           \* build id -> how its process_build task returned
    teardown_sent,      \* deployment ids ever sent on the teardown channel
    health_passed,      \* the service deploys whose health check passed
    \* ---- clock, health monitor
    aged,               \* deployment ids whose last_activity is more than 7 days old
    hm,                 \* run_health_monitor's loop
    monitor_table,      \* the RoutingTable main() hands to run_health_monitor
    health_status,      \* the monitor's map domain -> HealthStatus
    \* ---- DNS
    dns_records,        \* set of dns_records rows of the Store
    nextDnsRecordId,    \* the auto-increment of dns_records.id
    provider_records,   \* the records held by the DNS provider
    nextProviderRecordId, \* the provider's next record id
    dns_call,           \* the DnsManager call in flight
    \* ---- the RoutingTable's lock
    routes_lock,        \* the RwLock of the router's table: "free" or "write"
    rl,                 \* the load_from_deployments_with_services call in flight
    lookup              \* the last RoutingTable::get and what it returned

storeVars == <<deployments, nextDeploymentId, port_allocations, preview_databases>>

buildStoreVars == <<builds, nextBuildId, build_results, work_dirs>>

buildTaskVars == <<build_queue, wh, cancel, dispatcher, permits, tasks, build_sent, finished>>

osVars == <<units, sites, secrets, users>>

deployTaskVars == <<teardown_queue, router_updates, dep, td, cleanup, port_allocator,
                    routes, teardown_sent, health_passed>>

allocVars == <<pa_call, pa_live, pd_call>>

monitorVars == <<aged, hm, monitor_table, health_status>>

dnsVars == <<dns_records, nextDnsRecordId, provider_records, nextProviderRecordId,
             dns_call>>

reloadVars == <<routes_lock, rl, lookup>>

\* Everything but the deployment-side Store tables and the allocator's callers.
pipelineVars == <<buildStoreVars, buildTaskVars, deploy_queue, osVars, deployTaskVars,
                  monitorVars, dnsVars, reloadVars>>

vars == <<storeVars, buildStoreVars, buildTaskVars, deploy_queue, osVars,
          deployTaskVars, allocVars, monitorVars, dnsVars, reloadVars>>

\* ------------------------------------------------------------------------
\* Names: projects, services and branches the model deploys
\* ------------------------------------------------------------------------

Projects == {"demo"}

\* The services table: (project, name) -> type.  Rows are provisioned ahead
\* of the pipeline (no code path of the daemon inserts them).
ServiceNames == {"api", "docs"}

Callers == 1 .. NumCallers

Min(S) == CHOOSE x \in S : \A y \in S : x <= y

\* ------------------------------------------------------------------------
\* Store: deployments
\* ------------------------------------------------------------------------

DeploymentIds == {d.id : d \in deployments}

\* The rows create_test_deployment inserts before a port is allocated.
TestDeployments ==
    { [id |-> 1, project_name |-> "demo", service_name |-> "api",
       branch |-> "main", branch_slug |-> "main", git_ref |-> "main",
       environment |-> "prod", store_path |-> NoPath, port |-> NoInt,
       status |-> "active", domain |-> <<"api", "main", "demo">>],
      [id |-> 2, project_name |-> "demo", service_name |-> "api",
       branch |-> "dev", branch_slug |-> "dev", git_ref |-> "dev",
       environment |-> "dev", store_path |-> NoPath, port |-> NoInt,
       status |-> "active", domain |-> <<"api", "dev", "demo">>] }

\* ------------------------------------------------------------------------
\* Store: PortAllocationRepository
\* ------------------------------------------------------------------------

AllocatedPorts == {r.port : r \in port_allocations}

\* (PORT_MIN..=PORT_MAX).find(|p| !allocated_set.contains(p))
FirstFreePort(allocated_set) ==
    LET free == (PORT_MIN .. PORT_MAX) \ allocated_set
    IN  IF free = {} THEN NoInt ELSE Min(free)

\* PortInsertAllowed as it would be without the primary key on port.
PortInsertAllowed_NoPrimaryKey(port, deployment_id) ==
    /\ port >= PORT_MIN /\ port <= PORT_RANGE_END
    /\ deployment_id = NoInt \/ deployment_id \in DeploymentIds

\* What the database checks on INSERT INTO port_allocations: the primary key
\* (port), chk_port_range and fk_port_allocations_deployment.
PortInsertAllowed(port, deployment_id) ==
    /\ port \notin AllocatedPorts
    /\ port >= PORT_MIN /\ port <= PORT_RANGE_END
    /\ deployment_id = NoInt \/ deployment_id \in DeploymentIds

PaIdle == [op |-> "none", pc |-> "idle", port |-> NoInt, dep |-> NoInt, ret |-> Null]

\* allocate_port, first await: SELECT port FROM port_allocations, then the
\* pick of the least free port (PortPoolExhausted when there is none).
allocate_port_read(c, d) ==
    /\ pa_call[c].pc = "idle"
    /\ LET port == FirstFreePort(AllocatedPorts)
       IN  pa_call' = [pa_call EXCEPT ![c] =
                IF port = NoInt
                THEN [op |-> "allocate_port", pc |-> "done", port |-> NoInt,
                      dep |-> d, ret |-> "PortPoolExhausted"]
                ELSE [op |-> "allocate_port", pc |-> "picked", port |-> port,
                      dep |-> d, ret |-> Null]]
    /\ UNCHANGED <<storeVars, pa_live, pd_call, pipelineVars>>

\* allocate_port, second await: the INSERT; a collision surfaces as a
\* database error, a success returns the port.
allocate_port_insert(c) ==
    /\ pa_call[c].pc = "picked"
    /\ LET port == pa_call[c].port
           d    == pa_call[c].dep
       IN  IF PortInsertAllowed(port, d)
           THEN /\ port_allocations' = port_allocations \cup
                        {[port |-> port, deployment_id |-> d]}
                /\ pa_call' = [pa_call EXCEPT ![c].pc = "done", ![c].ret = "Ok"]
                /\ pa_live' = [pa_live EXCEPT ![port] =
                        IF @ < 2 THEN @ + 1 ELSE @]
           ELSE /\ pa_call' = [pa_call EXCEPT ![c].pc = "done",
                                              ![c].ret = "Database"]
                /\ UNCHANGED <<port_allocations, pa_live>>
    /\ UNCHANGED <<deployments, nextDeploymentId, preview_databases, pd_call, pipelineVars>>

\* release_port as it would be if the DELETE matched no row.
release_port_KeepsRow(c, p) ==
    /\ pa_call[c].pc = "idle"
    /\ pa_call' = [pa_call EXCEPT ![c] =
            [op |-> "release_port", pc |-> "done", port |-> p,
             dep |-> NoInt, ret |-> "Ok"]]
    /\ UNCHANGED <<storeVars, pa_live, pd_call, pipelineVars>>

\* release_port: DELETE FROM port_allocations WHERE port = p (no row: no error).
release_port(c, p) ==
    /\ pa_call[c].pc = "idle"
    /\ port_allocations' = {r \in port_allocations : r.port # p}
    /\ pa_live' = [pa_live EXCEPT ![p] = 0]
    /\ pa_call' = [pa_call EXCEPT ![c] =
            [op |-> "release_port", pc |-> "done", port |-> p,
             dep |-> NoInt, ret |-> "Ok"]]
    /\ UNCHANGED <<deployments, nextDeploymentId, preview_databases, pd_call, pipelineVars>>

\* The caller takes the result; it may call again.
pa_return(c) ==
    /\ pa_call[c].pc = "done"
    /\ pa_call' = [pa_call EXCEPT ![c] = PaIdle]
    /\ UNCHANGED <<storeVars, pa_live, pd_call, pipelineVars>>

\* ------------------------------------------------------------------------
\* Store: PreviewDatabaseRepository
\* ------------------------------------------------------------------------

\* The (project, branch) pairs the callers allocate for.
AuxPairs == { <<"demo", "main">>, <<"demo", "pr-1">>, <<"demo", "pr_1">> }

\* str::replace('-', "_") on the names of the model.
ReplaceDash(s) ==
    CASE s = "pr-1" -> "pr_1"
      [] s = "pr-2" -> "pr_2"
      [] OTHER -> s

\* format!("{}_{}", project_name.replace('-', "_"), branch.replace('-', "_"))
DatabaseName(project_name, branch) == <<ReplaceDash(project_name), ReplaceDash(branch)>>

AllocatedValkeyDbs == {r.valkey_db : r \in preview_databases} \ {NoInt}

\* allocate_valkey_db: (VALKEY_DB_MIN..=VALKEY_DB_MAX).find(|db| !allocated_set.contains(db))
FirstFreeValkeyDb(allocated_set) ==
    LET free == (VALKEY_DB_MIN .. VALKEY_DB_MAX) \ allocated_set
    IN  IF free = {} THEN NoInt ELSE Min(free)

\* What the database checks on INSERT INTO preview_databases: the unique
\* indices on (project_name, branch) and on database_name, the range check
\* on valkey_db and the foreign key to projects.  No index covers valkey_db.
PreviewInsertAllowed(row) ==
    /\ \A r \in preview_databases :
          /\ <<r.project_name, r.branch>> # <<row.project_name, row.branch>>
          /\ r.database_name # row.database_name
    /\ row.valkey_db >= VALKEY_DB_MIN /\ row.valkey_db <= VALKEY_DB_MAX
    /\ row.project_name \in Projects

PdIdle == [pc |-> "idle", project_name |-> Null, branch |-> Null,
           valkey_db |-> NoInt, ret |-> Null]

\* find_by_project_and_branch as it would be if it never found a row.
find_by_project_and_branch_None(project_name, branch) == {}

\* PreviewDatabaseRepository::find_by_project_and_branch
find_by_project_and_branch(project_name, branch) ==
    {r \in preview_databases : r.project_name = project_name /\ r.branch = branch}

\* allocate, first await: find_by_project_and_branch; an existing row is
\* returned unchanged (existing.valkey_db.unwrap_or(0)).
allocate_find(c, project_name, branch) ==
    /\ pd_call[c].pc = "idle"
    /\ LET existing == find_by_project_and_branch(project_name, branch)
       IN  pd_call' = [pd_call EXCEPT ![c] =
              IF existing # {}
              THEN LET e == CHOOSE r \in existing : TRUE
                   IN  [pc |-> "done", project_name |-> project_name,
                        branch |-> branch,
                        valkey_db |-> IF e.valkey_db = NoInt THEN 0 ELSE e.valkey_db,
                        ret |-> "Ok"]
              ELSE [pc |-> "absent", project_name |-> project_name,
                    branch |-> branch, valkey_db |-> NoInt, ret |-> Null]]
    /\ UNCHANGED <<storeVars, pa_call, pa_live, pipelineVars>>

\* allocate, second await: allocate_valkey_db reads the slots in use.
allocate_valkey_db(c) ==
    /\ pd_call[c].pc = "absent"
    /\ LET db == FirstFreeValkeyDb(AllocatedValkeyDbs)
       IN  pd_call' = [pd_call EXCEPT ![c] =
              IF db = NoInt
              THEN [@ EXCEPT !.pc = "done", !.ret = "ValkeyDbPoolExhausted"]
              ELSE [@ EXCEPT !.pc = "picked", !.valkey_db = db]]
    /\ UNCHANGED <<storeVars, pa_call, pa_live, pipelineVars>>

\* allocate, third await: the INSERT.
allocate_insert(c) ==
    /\ pd_call[c].pc = "picked"
    /\ LET row == [project_name |-> pd_call[c].project_name,
                   branch |-> pd_call[c].branch,
                   database_name |-> DatabaseName(pd_call[c].project_name,
                                                  pd_call[c].branch),
                   valkey_db |-> pd_call[c].valkey_db]
       IN  IF PreviewInsertAllowed(row)
           THEN /\ preview_databases' = preview_databases \cup {row}
                /\ pd_call' = [pd_call EXCEPT ![c].pc = "done", ![c].ret = "Ok"]
           ELSE /\ pd_call' = [pd_call EXCEPT ![c].pc = "done",
                                              ![c].valkey_db = NoInt,
                                              ![c].ret = "Database"]
                /\ UNCHANGED preview_databases
    /\ UNCHANGED <<deployments, nextDeploymentId, port_allocations, pa_call, pa_live, pipelineVars>>

\* delete_by_project_and_branch: DELETE ... WHERE project_name = p AND branch = b.
delete_by_project_and_branch(c, project_name, branch) ==
    /\ pd_call[c].pc = "idle"
    /\ preview_databases' = {r \in preview_databases :
            ~(r.project_name = project_name /\ r.branch = branch)}
    /\ pd_call' = [pd_call EXCEPT ![c] =
            [pc |-> "done", project_name |-> project_name, branch |-> branch,
             valkey_db |-> NoInt, ret |-> "Deleted"]]
    /\ UNCHANGED <<deployments, nextDeploymentId, port_allocations, pa_call, pa_live, pipelineVars>>

pd_return(c) ==
    /\ pd_call[c].pc = "done"
    /\ pd_call' = [pd_call EXCEPT ![c] = PdIdle]
    /\ UNCHANGED <<storeVars, pa_call, pa_live, pipelineVars>>

\* ------------------------------------------------------------------------
\* Store: builds
\* ------------------------------------------------------------------------

\* Commits pushed to the forge, named by their sha.
Commits == 1 .. NumCommits

\* Refs a delivery can name: a branch push, or "pr-N" of a pull request.
Refs == {"main", "pr-1"}

\* The ref a commit of the model was pushed to.
CommitRef(commit_sha) == IF commit_sha % 3 = 0 THEN "main" ELSE "pr-1"

\* A sequence cannot produce more ids than this in the model.
MaxBuildId == NumCommits + 1

BuildIds == 1 .. MaxBuildId

BuildRow(id) == CHOOSE b \in builds : b.id = id

BuildExists(id) == \E b \in builds : b.id = id

\* builds().update(active) with status the only Set column that matters.
SetBuildStatus(id, status) ==
    {IF b.id = id THEN [b EXCEPT !.status = status] ELSE b : b \in builds}

\* BuildInsertAllowed as it would be without idx_builds_unique_commit.
BuildInsertAllowed_NoUniqueIndex(project_name, commit_sha) ==
    project_name \in Projects

\* What the database checks on INSERT INTO builds: the unique index
\* idx_builds_unique_commit (project_name, commit_sha) and the foreign key
\* to projects.
BuildInsertAllowed(project_name, commit_sha) ==
    /\ project_name \in Projects
    /\ ~ \E b \in builds : b.project_name = project_name /\ b.commit_sha = commit_sha

\* The text of the StoreError a rejected insert surfaces as.
UniqueViolationMessage ==
    "database error: duplicate key value violates unique constraint"

\* e.to_string().contains("duplicate") || e.to_string().contains("unique")
IsDuplicateError(message) == message = UniqueViolationMessage

\* ------------------------------------------------------------------------
\* Webhook ingress: handle_webhook, a delivery that asks for a build
\* (push of a commit, or pull request opened / synchronize / reopened)
\* ------------------------------------------------------------------------

WhIdle == [pc |-> "idle", kind |-> "none", project_name |-> Null,
           event_type |-> Null, action |-> Null, signature |-> Null, git_ref |-> Null, commit_sha |-> NoInt,
           build_id |-> NoInt, duplicate |-> FALSE, ids |-> <<>>, sent |-> 0,
           resp |-> NoInt]

Handlers == 1 .. NumHandlers

\* What a delivery's signature header can be: the HMAC-SHA256 of the body
\* under the project's webhook_secret, some other value, or absent.
Signatures == {"valid", "invalid", "missing"}

\* verify_signature as it would be if it accepted every request.
verify_signature_AcceptAll(signature) == "Ok"

\* verify::verify_signature
verify_signature(signature) ==
    CASE signature = "valid" -> "Ok"
      [] signature = "missing" -> "MissingHeader"
      [] OTHER -> "InvalidSignature"

\* WebhookError::into_response
StatusOf(error) ==
    CASE error = "InvalidSignature" -> 401
      [] error = "ProjectNotFound" -> 404
      [] error = "InvalidPayload" -> 400
      [] error = "MissingHeader" -> 400
      [] error = "BuilderUnavailable" -> 503
      [] OTHER -> 500

\* Up to the end of create_build: project lookup (404), verify_signature
\* (401, or 400 when the header is missing), then the INSERT of the queued
\* row; a unique violation is answered 200 with nothing enqueued.
handle_webhook_create_build(h, project_name, signature, event_type, action, git_ref, commit_sha) ==
    /\ wh[h].pc = "idle"
    /\ nextBuildId <= MaxBuildId
    /\ LET req == [WhIdle EXCEPT !.kind = "build", !.project_name = project_name,
                                 !.event_type = event_type, !.action = action,
                                 !.signature = signature,
                                 !.git_ref = git_ref, !.commit_sha = commit_sha]
       IN
       IF project_name \notin Projects
       THEN /\ wh' = [wh EXCEPT ![h] = [WhIdle EXCEPT !.pc = "done",
                         !.event_type = event_type,
                         !.resp = StatusOf("ProjectNotFound")]]
            /\ UNCHANGED <<builds, nextBuildId>>
       ELSE IF verify_signature(signature) # "Ok"
       THEN /\ wh' = [wh EXCEPT ![h] = [WhIdle EXCEPT !.pc = "done",
                         !.project_name = project_name,
                         !.event_type = event_type,
                         !.signature = signature,
                         !.resp = StatusOf(verify_signature(signature))]]
            /\ UNCHANGED <<builds, nextBuildId>>
       ELSE IF BuildInsertAllowed(project_name, commit_sha)
       THEN /\ builds' = builds \cup
                  {[id |-> nextBuildId, project_name |-> project_name,
                    branch |-> git_ref, git_ref |-> git_ref,
                    commit_sha |-> commit_sha, status |-> "queued"]}
            /\ nextBuildId' = nextBuildId + 1
            /\ wh' = [wh EXCEPT ![h] = [req EXCEPT !.pc = "send",
                                                   !.build_id = nextBuildId]]
       ELSE /\ wh' = [wh EXCEPT ![h] = [req EXCEPT !.pc = "done",
                         !.duplicate = IsDuplicateError(UniqueViolationMessage),
                         !.resp = IF IsDuplicateError(UniqueViolationMessage)
                                  THEN 200 ELSE 500]]
            /\ UNCHANGED <<builds, nextBuildId>>
    /\ UNCHANGED <<build_results, work_dirs, build_queue, cancel, dispatcher,
                   permits, tasks, build_sent, finished, deploy_queue,
                   storeVars, osVars, deployTaskVars, allocVars, monitorVars, dnsVars, reloadVars>>

\* build_tx.send(build.id).await, then 200.  The send waits for room.
handle_webhook_send_build(h) ==
    /\ wh[h].pc = "send"
    /\ Len(build_queue) < BUILD_CHANNEL_CAPACITY
    /\ build_queue' = Append(build_queue, wh[h].build_id)
    /\ build_sent' = [build_sent EXCEPT ![wh[h].build_id] = @ + 1]
    /\ wh' = [wh EXCEPT ![h].pc = "done", ![h].resp = 200]
    /\ UNCHANGED <<buildStoreVars, cancel, dispatcher, permits, tasks, finished,
                   deploy_queue, storeVars, osVars, deployTaskVars, allocVars, monitorVars, dnsVars, reloadVars>>

\* The response is written; the connection can carry the next delivery.
handle_webhook_return(h) ==
    /\ wh[h].pc = "done"
    /\ wh' = [wh EXCEPT ![h] = WhIdle]
    /\ UNCHANGED <<buildStoreVars, build_queue, cancel, dispatcher, permits,
                   tasks, build_sent, finished, deploy_queue, storeVars,
                   osVars, deployTaskVars, allocVars, monitorVars, dnsVars, reloadVars>>

\* ------------------------------------------------------------------------
\* API: cancel_build
\* ------------------------------------------------------------------------

CancelIdle == [pc |-> "idle", build_id |-> NoInt, resp |-> NoInt]

\* find_by_id (404), then the status test (400 unless Queued | Building).
cancel_build_find(id) ==
    /\ cancel.pc = "idle"
    /\ cancel' =
          IF ~ BuildExists(id)
          THEN [pc |-> "done", build_id |-> id, resp |-> 404]
          ELSE IF BuildRow(id).status \notin {"queued", "building"}
          THEN [pc |-> "done", build_id |-> id, resp |-> 400]
          ELSE [pc |-> "update", build_id |-> id, resp |-> NoInt]
    /\ UNCHANGED <<buildStoreVars, build_queue, wh, dispatcher, permits, tasks,
                   build_sent, finished, deploy_queue, storeVars, osVars,
                   deployTaskVars, allocVars, monitorVars, dnsVars, reloadVars>>

\* builds().update(status = Cancelled), then 200.
cancel_build_update ==
    /\ cancel.pc = "update"
    /\ builds' = SetBuildStatus(cancel.build_id, "cancelled")
    /\ cancel' = [cancel EXCEPT !.pc = "done", !.resp = 200]
    /\ UNCHANGED <<nextBuildId, build_results, work_dirs, build_queue, wh,
                   dispatcher, permits, tasks, build_sent, finished,
                   deploy_queue, storeVars, osVars, deployTaskVars, allocVars, monitorVars, dnsVars, reloadVars>>

cancel_build_return ==
    /\ cancel.pc = "done"
    /\ cancel' = CancelIdle
    /\ UNCHANGED <<buildStoreVars, build_queue, wh, dispatcher, permits, tasks,
                   build_sent, finished, deploy_queue, storeVars, osVars,
                   deployTaskVars, allocVars, monitorVars, dnsVars, reloadVars>>

\* ------------------------------------------------------------------------
\* Builder: run_worker_pool
\* ------------------------------------------------------------------------

\* BuilderConfig.max_concurrent_builds, the size of the semaphore
\* (DEFAULT_MAX_CONCURRENT_BUILDS unless configured).
max_concurrent_builds == 1

NoTask == [pc |-> "none", entries |-> <<>>, all_services_succeeded |-> TRUE]

RunningTasks == {b \in BuildIds : tasks[b].pc # "none"}

\* PermitAvailable as it would be if the pool spawned without a permit.
PermitAvailable_NoWait(n) == TRUE

\* semaphore.acquire_owned().await completes only when a permit is free.
PermitAvailable(n) == n > 0

\* build_rx.recv().await
run_worker_pool_recv ==
    /\ dispatcher.pc = "recv"
    /\ build_queue # <<>>
    /\ dispatcher' = [pc |-> "acquire", build_id |-> Head(build_queue)]
    /\ build_queue' = Tail(build_queue)
    /\ UNCHANGED <<buildStoreVars, wh, cancel, permits, tasks, build_sent,
                   finished, deploy_queue, storeVars, osVars, deployTaskVars,
                   allocVars, monitorVars, dnsVars, reloadVars>>

\* acquire_owned().await, then tokio::spawn of the task holding the permit.
run_worker_pool_spawn ==
    /\ dispatcher.pc = "acquire"
    /\ PermitAvailable(permits)
    /\ tasks[dispatcher.build_id].pc = "none"
    /\ permits' = permits - 1
    /\ tasks' = [tasks EXCEPT ![dispatcher.build_id] = [NoTask EXCEPT !.pc = "start"]]
    /\ dispatcher' = [pc |-> "recv", build_id |-> NoInt]
    /\ UNCHANGED <<buildStoreVars, build_queue, wh, cancel, build_sent, finished,
                   deploy_queue, storeVars, osVars, deployTaskVars, allocVars, monitorVars, dnsVars, reloadVars>>

\* ------------------------------------------------------------------------
\* Builder: process_build
\* ------------------------------------------------------------------------

\* What a clone can leave in the work directory: kennel.toml that does not
\* parse, no kennel.toml (an empty config), or a manifest of services and
\* static sites.
InvalidManifest == [valid |-> FALSE, services |-> {}, static_sites |-> {},
                    preview_database |-> FALSE]

Manifest(services, static_sites, preview_database) ==
    [valid |-> TRUE, services |-> services, static_sites |-> static_sites,
     preview_database |-> preview_database]

NoWorkDir == [valid |-> FALSE, services |-> {}, static_sites |-> {},
              preview_database |-> FALSE, cloned |-> FALSE]

\* The repositories of the model: a broken kennel.toml, none at all, and
\* one with a service and a static site.
Manifests ==
    {InvalidManifest, Manifest({}, {}, FALSE), Manifest({"api"}, {"docs"}, FALSE)}

\* An iteration order of a HashMap's keys.
RECURSIVE SeqOfSet(_)
SeqOfSet(S) ==
    IF S = {} THEN <<>>
    ELSE LET x == CHOOSE y \in S : TRUE IN <<x>> \o SeqOfSet(S \ {x})

\* The store path nix::build prints for a flake output of a commit.
StorePath(commit_sha, service_name) == <<"/nix/store", commit_sha, service_name>>

\* The task returns: drop(permit) follows at once in the spawned closure.
TaskEnds(b, result) ==
    /\ tasks' = [tasks EXCEPT ![b] = NoTask]
    /\ permits' = permits + 1
    /\ finished' = [finished EXCEPT ![b] = result]

\* find_by_id, then update(status = Building, started_at = now).
process_build_start(b) ==
    /\ tasks[b].pc = "start"
    /\ IF BuildExists(b)
       THEN /\ builds' = SetBuildStatus(b, "building")
            /\ tasks' = [tasks EXCEPT ![b].pc = "check"]
            /\ UNCHANGED <<permits, finished>>
       ELSE /\ TaskEnds(b, "Err")
            /\ UNCHANGED builds
    /\ UNCHANGED <<nextBuildId, build_results, work_dirs, build_queue, wh, cancel,
                   dispatcher, build_sent, deploy_queue, storeVars, osVars,
                   deployTaskVars, allocVars, monitorVars, dnsVars, reloadVars>>

\* check_cancelled before starting; the project lookup follows.
process_build_check_cancelled(b) ==
    /\ tasks[b].pc = "check"
    /\ IF BuildRow(b).status = "cancelled"
       THEN TaskEnds(b, "Ok")
       ELSE /\ tasks' = [tasks EXCEPT ![b].pc = "clone"]
            /\ UNCHANGED <<permits, finished>>
    /\ UNCHANGED <<buildStoreVars, build_queue, wh, cancel, dispatcher,
                   build_sent, deploy_queue, storeVars, osVars, deployTaskVars,
                   allocVars, monitorVars, dnsVars, reloadVars>>

\* git::clone fails: mark_build_failed, return Err.
process_build_clone_failed(b) ==
    /\ tasks[b].pc = "clone"
    /\ builds' = SetBuildStatus(b, "failed")
    /\ TaskEnds(b, "Err")
    /\ UNCHANGED <<nextBuildId, build_results, work_dirs, build_queue, wh, cancel,
                   dispatcher, build_sent, deploy_queue, storeVars, osVars,
                   deployTaskVars, allocVars, monitorVars, dnsVars, reloadVars>>

\* git::clone succeeds and leaves manifest m; check_cancelled after clone.
process_build_clone(b, m) ==
    /\ tasks[b].pc = "clone"
    /\ work_dirs' = [work_dirs EXCEPT ![b] =
            [valid |-> m.valid, services |-> m.services,
             static_sites |-> m.static_sites,
             preview_database |-> m.preview_database, cloned |-> TRUE]]
    /\ IF BuildRow(b).status = "cancelled"
       THEN TaskEnds(b, "Ok")
       ELSE /\ tasks' = [tasks EXCEPT ![b].pc = "parse"]
            /\ UNCHANGED <<permits, finished>>
    /\ UNCHANGED <<builds, nextBuildId, build_results, build_queue, wh, cancel,
                   dispatcher, build_sent, deploy_queue, storeVars, osVars,
                   deployTaskVars, allocVars, monitorVars, dnsVars, reloadVars>>

\* parse_kennel_toml: an error leaves through `?`; an empty config is marked
\* failed; otherwise the services are built first, then the static sites.
process_build_parse(b) ==
    /\ tasks[b].pc = "parse"
    /\ LET m == work_dirs[b] IN
       IF ~ m.valid
       THEN /\ TaskEnds(b, "Err")
            /\ UNCHANGED builds
       ELSE IF m.services = {} /\ m.static_sites = {}
       THEN /\ builds' = SetBuildStatus(b, "failed")
            /\ TaskEnds(b, "Err")
       ELSE /\ tasks' = [tasks EXCEPT ![b].pc = "entry",
                  ![b].entries = SeqOfSet(m.services) \o SeqOfSet(m.static_sites)]
            /\ UNCHANGED <<builds, permits, finished>>
    /\ UNCHANGED <<nextBuildId, build_results, work_dirs, build_queue, wh, cancel,
                   dispatcher, build_sent, deploy_queue, storeVars, osVars,
                   deployTaskVars, allocVars, monitorVars, dnsVars, reloadVars>>

\* One turn of either loop: check_cancelled, nix::build, and the build
\* result row (succeeded tells how nix::build went).
process_build_entry(b, succeeded) ==
    /\ tasks[b].pc = "entry"
    /\ tasks[b].entries # <<>>
    /\ LET name == Head(tasks[b].entries) IN
       IF BuildRow(b).status = "cancelled"
       THEN /\ TaskEnds(b, "Ok")
            /\ UNCHANGED build_results
       ELSE /\ build_results' = build_results \cup
                  {[build_id |-> b, service_name |-> name,
                    status |-> IF succeeded THEN "success" ELSE "failed",
                    store_path |-> IF succeeded
                                   THEN StorePath(BuildRow(b).commit_sha, name)
                                   ELSE NoPath]}
            /\ tasks' = [tasks EXCEPT ![b].entries = Tail(@),
                  ![b].all_services_succeeded = @ /\ succeeded]
            /\ UNCHANGED <<permits, finished>>
    /\ UNCHANGED <<builds, nextBuildId, work_dirs, build_queue, wh, cancel,
                   dispatcher, build_sent, deploy_queue, storeVars, osVars,
                   deployTaskVars, allocVars, monitorVars, dnsVars, reloadVars>>

\* process_build_finish as it would be if the outcome of the entries were
\* not looked at.
process_build_finish_AlwaysSuccess(b) ==
    /\ tasks[b].pc = "entry"
    /\ tasks[b].entries = <<>>
    /\ builds' = SetBuildStatus(b, "success")
    /\ tasks' = [tasks EXCEPT ![b].pc = "send_deploy"]
    /\ UNCHANGED <<permits, finished>>
    /\ UNCHANGED <<nextBuildId, build_results, work_dirs, build_queue, wh, cancel,
                   dispatcher, build_sent, deploy_queue, storeVars, osVars,
                   deployTaskVars, allocVars, monitorVars, dnsVars, reloadVars>>

\* After the loops: the update to Success or Failed of the row read at start.
process_build_finish(b) ==
    /\ tasks[b].pc = "entry"
    /\ tasks[b].entries = <<>>
    /\ IF tasks[b].all_services_succeeded
       THEN /\ builds' = SetBuildStatus(b, "success")
            /\ tasks' = [tasks EXCEPT ![b].pc = "send_deploy"]
            /\ UNCHANGED <<permits, finished>>
       ELSE /\ builds' = SetBuildStatus(b, "failed")
            /\ TaskEnds(b, "Err")
    /\ UNCHANGED <<nextBuildId, build_results, work_dirs, build_queue, wh, cancel,
                   dispatcher, build_sent, deploy_queue, storeVars, osVars,
                   deployTaskVars, allocVars, monitorVars, dnsVars, reloadVars>>

\* deploy_tx.send(DeploymentRequest).await, then Ok.
process_build_send_deploy(b) ==
    /\ tasks[b].pc = "send_deploy"
    /\ Len(deploy_queue) < DEPLOY_CHANNEL_CAPACITY
    /\ deploy_queue' = Append(deploy_queue,
          [build_id |-> b, project_name |-> BuildRow(b).project_name,
           git_ref |-> BuildRow(b).git_ref])
    /\ TaskEnds(b, "Ok")
    /\ UNCHANGED <<buildStoreVars, build_queue, wh, cancel, dispatcher,
                   build_sent, storeVars, osVars, deployTaskVars, allocVars, monitorVars, dnsVars, reloadVars>>

\* ------------------------------------------------------------------------
\* Deployer: names and rows
\* ------------------------------------------------------------------------

\* utils::sanitize_identifier: every character that is neither alphanumeric
\* nor '-' becomes '-', the rest is lowercased (on the names of the model).
sanitize_identifier(s) ==
    CASE s = "feature/x" -> "feature-x"
      [] s = "pr_1" -> "pr-1"
      [] s = "Main" -> "main"
      [] OTHER -> s

\* service::determine_environment
determine_environment(git_ref) ==
    CASE git_ref = "main" -> "prod"
      [] git_ref = "staging" -> "staging"
      [] git_ref = "dev" -> "dev"
      [] git_ref \in {"pr-1", "pr-2"} -> "preview"
      [] OTHER -> "dev"

\* format!("kennel-{}-{}-{}", project, branch_slug, service)
UnitName(project_name, branch_slug, service_name) ==
    <<"kennel", project_name, branch_slug, service_name>>

\* utils::sanitize_username / user::sanitize_username
sanitize_username(project, branch, service) ==
    <<"kennel", sanitize_identifier(project), sanitize_identifier(branch),
      sanitize_identifier(service)>>

\* utils::generate_deployment_domain (the base domain is fixed)
generate_deployment_domain(service_name, branch, project_name) ==
    <<sanitize_identifier(service_name), sanitize_identifier(branch), project_name>>

\* {SECRETS_DIR}/{project}-{branch_slug}-{service}.env
SecretsPath(project_name, branch_slug, service_name) ==
    <<"secrets", project_name, branch_slug, service_name>>

\* {SITES_BASE_DIR}/{project}/{branch_slug}/{service}
SiteLink(project_name, branch_slug, service_name) ==
    <<"sites", project_name, branch_slug, service_name>>

\* The services table, provisioned ahead of the pipeline.
Services ==
    { [project_name |-> "demo", name |-> "api", spa |-> FALSE,
       custom_domain |-> NoPath],
      [project_name |-> "demo", name |-> "docs", spa |-> FALSE,
       custom_domain |-> <<"docs.example.org">>] }

NoDeployment ==
    [id |-> NoInt, project_name |-> Null, service_name |-> Null, branch |-> Null,
     branch_slug |-> Null, git_ref |-> Null, environment |-> Null,
     store_path |-> NoPath, port |-> NoInt, status |-> Null, domain |-> <<>>]

\* DeploymentRepository::find_by_id
FindDeployment(id) ==
    IF \E d \in deployments : d.id = id
    THEN CHOOSE d \in deployments : d.id = id
    ELSE NoDeployment

\* DeploymentRepository::find_active_by_ref
find_active_by_ref(project_name, git_ref, service_name) ==
    LET found == {d \in deployments :
                     /\ d.project_name = project_name /\ d.git_ref = git_ref
                     /\ d.service_name = service_name /\ d.status = "active"}
    IN  IF found = {} THEN NoDeployment ELSE CHOOSE d \in found : TRUE

\* DeploymentRepository::find_by_project_service_branch
find_by_project_service_branch(project_name, service_name, branch) ==
    LET found == {d \in deployments :
                     /\ d.project_name = project_name
                     /\ d.service_name = service_name /\ d.branch = branch}
    IN  IF found = {} THEN NoDeployment ELSE CHOOSE d \in found : TRUE

\* DeploymentRepository::update with status the only Set column; no row
\* with that id leaves the table as it is (RecordNotUpdated).
SetDeploymentStatus(id, status) ==
    {IF d.id = id THEN [d EXCEPT !.status = status] ELSE d : d \in deployments}

\* DeploymentInsertAllowed as it would be without the unique index.
DeploymentInsertAllowed_NoUniqueIndex(row) ==
    \E sv \in Services : sv.project_name = row.project_name /\ sv.name = row.service_name

\* What the database checks on INSERT INTO deployments: the unique index
\* idx_deployments_project_service_branch and fk_deployments_service.
DeploymentInsertAllowed(row) ==
    /\ ~ \E d \in deployments : /\ d.project_name = row.project_name
                                /\ d.service_name = row.service_name
                                /\ d.branch = row.branch
    /\ \E sv \in Services : sv.project_name = row.project_name /\ sv.name = row.service_name

\* The row deploy_service / deploy_site inserts (port NoInt for a site).
NewDeployment(id, request, service_name, store_path, port) ==
    [id |-> id, project_name |-> request.project_name,
     service_name |-> service_name, branch |-> request.git_ref,
     branch_slug |-> sanitize_identifier(request.git_ref),
     git_ref |-> request.git_ref,
     environment |-> determine_environment(request.git_ref),
     store_path |-> store_path, port |-> port, status |-> "active",
     domain |-> generate_deployment_domain(service_name,
                   sanitize_identifier(request.git_ref), request.project_name)]

\* DELETE FROM deployments WHERE id: fk_port_allocations_deployment is
\* ON DELETE SET NULL.
PortAllocationsAfterDelete(id) ==
    {IF r.deployment_id = id THEN [r EXCEPT !.deployment_id = NoInt] ELSE r :
        r \in port_allocations}

\* find_available_port: the least port of the range with no row.
find_available_port == FirstFreePort(AllocatedPorts)

\* allocate_for_deployment: the port_allocations table after the port is
\* registered for the deployment row.
allocate_for_deployment(port, deployment_id) ==
    port_allocations \cup {[port |-> port, deployment_id |-> deployment_id]}

\* PreviewDatabaseRepository::allocate run to its end by one caller: the
\* table afterwards and whether the call returned Ok.
PreviewAllocate(project_name, branch) ==
    LET existing == {r \in preview_databases :
                        r.project_name = project_name /\ r.branch = branch}
        db  == FirstFreeValkeyDb(AllocatedValkeyDbs)
        row == [project_name |-> project_name, branch |-> branch,
                database_name |-> DatabaseName(project_name, branch),
                valkey_db |-> db]
    IN  IF existing # {} THEN [ok |-> TRUE, rows |-> preview_databases]
        ELSE IF db = NoInt THEN [ok |-> FALSE, rows |-> preview_databases]
        ELSE IF PreviewInsertAllowed(row)
        THEN [ok |-> TRUE, rows |-> preview_databases \cup {row}]
        ELSE [ok |-> FALSE, rows |-> preview_databases]

\* systemd: install_unit + daemon_reload + enable_unit + start_unit
InstallAndStart(name, store_path, port) ==
    {u \in units : u.name # name} \cup
    {[name |-> name, store_path |-> store_path, port |-> port, running |-> TRUE]}

\* stop_unit as it would be if it left the unit running.
StopUnit_StillRunning(name) == units

\* systemd: stop_unit
StopUnit(name) ==
    {IF u.name = name THEN [u EXCEPT !.running = FALSE] ELSE u : u \in units}

\* systemd: stop_unit + disable_unit + remove_unit + daemon_reload
RemoveUnit(name) == {u \in units : u.name # name}

\* RoutingTable::insert
RouteInsert(table, route) == {r \in table : r.domain # route.domain} \cup {route}

\* The Route the update handler builds from a DeploymentActive.
RouteOf(deployment_id, domain, port, store_path, spa) ==
    [domain |-> domain, deployment_id |-> deployment_id,
     kind |-> IF port # NoInt THEN "Service" ELSE "StaticSite",
     port |-> port,
     path |-> IF port # NoInt THEN NoPath ELSE store_path,
     spa |-> IF port # NoInt THEN FALSE ELSE spa]

\* ------------------------------------------------------------------------
\* Deployer: run_deployer, deploy_build, deploy_service, deploy_site
\* ------------------------------------------------------------------------

NoRequest == [build_id |-> NoInt, project_name |-> Null, git_ref |-> Null]

DepIdle == [pc |-> "recv", request |-> NoRequest, results |-> <<>>,
            existing |-> NoDeployment, port |-> NoInt, new_id |-> NoInt]

\* find_successful_by_build_id, in the order the rows were inserted.
SuccessfulResults(build_id) ==
    LET m    == work_dirs[build_id]
        rows == {r \in build_results : r.build_id = build_id /\ r.status = "success"}
        names == SeqOfSet(m.services) \o SeqOfSet(m.static_sites)
        idx  == {i \in 1 .. Len(names) : \E r \in rows : r.service_name = names[i]}
        F[i \in 0 .. Len(names)] ==
            IF i = 0 THEN <<>>
            ELSE IF i \in idx
                 THEN Append(F[i - 1], CHOOSE r \in rows : r.service_name = names[i])
                 ELSE F[i - 1]
    IN  F[Len(names)]

\* The deployer moves on: the next build result, or back to deploy_rx.recv().
DepNext(rest) ==
    [DepIdle EXCEPT !.pc = IF rest = <<>> THEN "recv" ELSE "next",
                    !.request = IF rest = <<>> THEN NoRequest ELSE dep.request,
                    !.results = rest]

IsStaticSite(result) == result.service_name \in work_dirs[result.build_id].static_sites

\* deploy_rx.recv(), then deploy_build up to its loop: the successful build
\* results, the build row and the manifest of the work directory.
run_deployer_recv ==
    /\ dep.pc = "recv"
    /\ deploy_queue # <<>>
    /\ deploy_queue' = Tail(deploy_queue)
    /\ LET request == Head(deploy_queue)
           results == SuccessfulResults(request.build_id)
       IN  dep' = IF \/ results = <<>>
                     \/ ~ BuildExists(request.build_id)
                     \/ ~ work_dirs[request.build_id].valid
                  THEN DepIdle
                  ELSE [DepIdle EXCEPT !.pc = "next", !.request = request,
                                       !.results = results]
    /\ UNCHANGED <<storeVars, buildStoreVars, buildTaskVars, osVars,
                   teardown_queue, router_updates, td, cleanup, port_allocator,
                   routes, teardown_sent, health_passed, allocVars, monitorVars, dnsVars, reloadVars>>

\* deploy_service up to the port: find_active_by_ref, ensure_user_exists,
\* the work directory, find_available_port.
deploy_service_prepare ==
    /\ dep.pc = "next"
    /\ ~ IsStaticSite(Head(dep.results))
    /\ LET result == Head(dep.results)
           slug   == sanitize_identifier(dep.request.git_ref)
           port   == find_available_port
       IN  /\ users' = users \cup
                 {sanitize_username(dep.request.project_name, slug, result.service_name)}
           /\ dep' = IF port = NoInt
                     THEN DepNext(Tail(dep.results))
                     ELSE [dep EXCEPT !.pc = "start", !.port = port,
                              !.existing = find_active_by_ref(dep.request.project_name,
                                  dep.request.git_ref, result.service_name)]
    /\ UNCHANGED <<storeVars, buildStoreVars, buildTaskVars, deploy_queue, units,
                   sites, secrets, teardown_queue, router_updates, td, cleanup,
                   port_allocator, routes, teardown_sent, health_passed, allocVars, monitorVars, dnsVars, reloadVars>>

\* The preview database if the service asks for one, the env file, and the
\* unit: install_unit, daemon_reload, enable_unit, start_unit.
deploy_service_start ==
    /\ dep.pc = "start"
    /\ LET result == Head(dep.results)
           slug   == sanitize_identifier(dep.request.git_ref)
           wants  == work_dirs[result.build_id].preview_database
           alloc  == PreviewAllocate(dep.request.project_name, dep.request.git_ref)
       IN  IF wants /\ ~ alloc.ok
           THEN /\ dep' = DepNext(Tail(dep.results))
                /\ UNCHANGED <<preview_databases, secrets, units>>
           ELSE /\ preview_databases' = IF wants THEN alloc.rows ELSE preview_databases
                /\ secrets' = secrets \cup
                      {SecretsPath(dep.request.project_name, slug, result.service_name)}
                /\ units' = InstallAndStart(
                      UnitName(dep.request.project_name, slug, result.service_name),
                      result.store_path, dep.port)
                /\ dep' = [dep EXCEPT !.pc = "health"]
    /\ UNCHANGED <<deployments, nextDeploymentId, port_allocations, buildStoreVars,
                   buildTaskVars, deploy_queue, sites, users, teardown_queue,
                   router_updates, td, cleanup, port_allocator, routes,
                   teardown_sent, health_passed, allocVars, monitorVars, dnsVars, reloadVars>>

\* check_health, and on success the INSERT of the Active row.  A failed
\* check stops the unit; a rejected insert returns the error.
deploy_service_health(passed) ==
    /\ dep.pc = "health"
    /\ LET result == Head(dep.results)
           slug   == sanitize_identifier(dep.request.git_ref)
           row    == NewDeployment(nextDeploymentId, dep.request,
                                   result.service_name, result.store_path, dep.port)
       IN  IF ~ passed
           THEN /\ units' = StopUnit(UnitName(dep.request.project_name, slug,
                                              result.service_name))
                /\ dep' = DepNext(Tail(dep.results))
                /\ UNCHANGED <<deployments, nextDeploymentId, health_passed>>
           ELSE /\ health_passed' = health_passed \cup
                      {[build_id |-> result.build_id,
                        project_name |-> dep.request.project_name,
                        service_name |-> result.service_name,
                        git_ref |-> dep.request.git_ref,
                        store_path |-> result.store_path, port |-> dep.port,
                        predecessor |-> dep.existing.id]}
                /\ UNCHANGED units
                /\ IF DeploymentInsertAllowed(row)
                   THEN /\ deployments' = deployments \cup {row}
                        /\ nextDeploymentId' = nextDeploymentId + 1
                        /\ dep' = [dep EXCEPT !.pc = "register",
                                              !.new_id = nextDeploymentId]
                   ELSE /\ dep' = DepNext(Tail(dep.results))
                        /\ UNCHANGED <<deployments, nextDeploymentId>>
    /\ UNCHANGED <<port_allocations, preview_databases, buildStoreVars,
                   buildTaskVars, deploy_queue, sites, secrets, users,
                   teardown_queue, router_updates, td, cleanup, port_allocator,
                   routes, teardown_sent, allocVars, monitorVars, dnsVars, reloadVars>>

\* allocate_for_deployment registers the port for the new row, then the
\* DeploymentActive update is broadcast.
deploy_service_register ==
    /\ dep.pc = "register"
    /\ LET result == Head(dep.results)
           slug   == sanitize_identifier(dep.request.git_ref)
       IN  IF PortInsertAllowed(dep.port, dep.new_id)
           THEN /\ port_allocations' = allocate_for_deployment(dep.port, dep.new_id)
                /\ router_updates' = Append(router_updates,
                      [type |-> "DeploymentActive", deployment_id |-> dep.new_id,
                       domain |-> generate_deployment_domain(result.service_name,
                                     slug, dep.request.project_name),
                       port |-> dep.port, store_path |-> result.store_path,
                       spa |-> FALSE])
                /\ dep' = IF dep.existing.id # NoInt
                          THEN [dep EXCEPT !.pc = "drain"]
                          ELSE DepNext(Tail(dep.results))
           ELSE /\ dep' = DepNext(Tail(dep.results))
                /\ UNCHANGED <<port_allocations, router_updates>>
    /\ UNCHANGED <<deployments, nextDeploymentId, preview_databases, buildStoreVars,
                   buildTaskVars, deploy_queue, osVars, teardown_queue, td, cleanup,
                   port_allocator, routes, teardown_sent, health_passed, allocVars, monitorVars, dnsVars, reloadVars>>

\* Blue/green, after the drain interval: the predecessor read at the start
\* is set TearingDown, the unit of that name is stopped, and the
\* predecessor's port is released if it differs from the new one.
deploy_service_drain ==
    /\ dep.pc = "drain"
    /\ LET result == Head(dep.results)
           slug   == sanitize_identifier(dep.request.git_ref)
           old    == dep.existing
       IN  /\ deployments' = SetDeploymentStatus(old.id, "tearing_down")
           /\ units' = StopUnit(UnitName(dep.request.project_name, slug,
                                         result.service_name))
           /\ port_allocations' =
                 IF old.port # NoInt /\ old.port # dep.port
                 THEN {r \in port_allocations : r.port # old.port}
                 ELSE port_allocations
           /\ dep' = DepNext(Tail(dep.results))
    /\ UNCHANGED <<nextDeploymentId, preview_databases, buildStoreVars,
                   buildTaskVars, deploy_queue, sites, secrets, users,
                   teardown_queue, router_updates, td, cleanup, port_allocator,
                   routes, teardown_sent, health_passed, allocVars, monitorVars, dnsVars, reloadVars>>

\* deploy_site, create_dir_all and the temporary link {service}.new (a
\* leftover one is removed first).
deploy_site_symlink ==
    /\ dep.pc = "next"
    /\ IsStaticSite(Head(dep.results))
    /\ LET result == Head(dep.results)
           temp   == Append(SiteLink(dep.request.project_name,
                                     sanitize_identifier(dep.request.git_ref),
                                     result.service_name), "new")
       IN  sites' = {l \in sites : l.path # temp} \cup
                    {[path |-> temp, target |-> result.store_path]}
    /\ dep' = [dep EXCEPT !.pc = "site_remove"]
    /\ UNCHANGED <<storeVars, buildStoreVars, buildTaskVars, deploy_queue, units,
                   secrets, users, teardown_queue, router_updates, td, cleanup,
                   port_allocator, routes, teardown_sent, health_passed, allocVars, monitorVars, dnsVars, reloadVars>>

\* if site_link.exists() { remove_file(&site_link) }
deploy_site_remove ==
    /\ dep.pc = "site_remove"
    /\ LET result == Head(dep.results)
           link   == SiteLink(dep.request.project_name,
                              sanitize_identifier(dep.request.git_ref),
                              result.service_name)
       IN  sites' = {l \in sites : l.path # link}
    /\ dep' = [dep EXCEPT !.pc = "site_rename"]
    /\ UNCHANGED <<storeVars, buildStoreVars, buildTaskVars, deploy_queue, units,
                   secrets, users, teardown_queue, router_updates, td, cleanup,
                   port_allocator, routes, teardown_sent, health_passed, allocVars, monitorVars, dnsVars, reloadVars>>

\* rename(&temp_link, &site_link)
deploy_site_rename ==
    /\ dep.pc = "site_rename"
    /\ LET result == Head(dep.results)
           link   == SiteLink(dep.request.project_name,
                              sanitize_identifier(dep.request.git_ref),
                              result.service_name)
           temp   == Append(link, "new")
       IN  sites' = {l \in sites : l.path # link /\ l.path # temp} \cup
                    {[path |-> link, target |-> l.target] :
                        l \in {x \in sites : x.path = temp}}
    /\ dep' = [dep EXCEPT !.pc = "site_insert"]
    /\ UNCHANGED <<storeVars, buildStoreVars, buildTaskVars, deploy_queue, units,
                   secrets, users, teardown_queue, router_updates, td, cleanup,
                   port_allocator, routes, teardown_sent, health_passed, allocVars, monitorVars, dnsVars, reloadVars>>

\* deploy_site from the INSERT (port NULL) to the DeploymentActive update.
deploy_site_insert ==
    /\ dep.pc = "site_insert"
    /\ LET result == Head(dep.results)
           row    == NewDeployment(nextDeploymentId, dep.request,
                                   result.service_name, result.store_path, NoInt)
       IN  IF DeploymentInsertAllowed(row)
           THEN /\ deployments' = deployments \cup {row}
                /\ nextDeploymentId' = nextDeploymentId + 1
                /\ router_updates' = Append(router_updates,
                      [type |-> "DeploymentActive", deployment_id |-> row.id,
                       domain |-> row.domain, port |-> NoInt,
                       store_path |-> result.store_path, spa |-> FALSE])
           ELSE UNCHANGED <<deployments, nextDeploymentId, router_updates>>
    /\ dep' = DepNext(Tail(dep.results))
    /\ UNCHANGED <<port_allocations, preview_databases, buildStoreVars,
                   buildTaskVars, deploy_queue, osVars, teardown_queue, td, cleanup,
                   port_allocator, routes, teardown_sent, health_passed, allocVars, monitorVars, dnsVars, reloadVars>>

\* ------------------------------------------------------------------------
\* Teardown worker: run_teardown_worker, process_teardown
\* ------------------------------------------------------------------------

\* run_health_monitor between two ticks.
HmIdle == [pc |-> "tick", pending |-> <<>>]

TdIdle == [pc |-> "recv", deployment |-> NoDeployment, result |-> Null]

\* TeardownSkipped as it would be if every row were torn down.
TeardownSkipped_Never(deployment) == FALSE

\* deployment.status != DeploymentStatus::TearingDown
TeardownSkipped(deployment) == deployment.status # "tearing_down"

\* teardown_rx.recv(), then find_by_id: NotFound is an error, a row that is
\* not TearingDown is skipped.
run_teardown_worker_recv ==
    /\ td.pc = "recv"
    /\ teardown_queue # <<>>
    /\ teardown_queue' = Tail(teardown_queue)
    /\ LET deployment == FindDeployment(Head(teardown_queue))
       IN  td' = IF deployment.id = NoInt
                 THEN [pc |-> "recv", deployment |-> NoDeployment, result |-> "NotFound"]
                 ELSE IF TeardownSkipped(deployment)
                 THEN [pc |-> "recv", deployment |-> deployment, result |-> "Skipped"]
                 ELSE [pc |-> "resources", deployment |-> deployment, result |-> Null]
    /\ UNCHANGED <<storeVars, buildStoreVars, buildTaskVars, deploy_queue, osVars,
                   router_updates, dep, cleanup, port_allocator, routes,
                   teardown_sent, health_passed, allocVars, monitorVars, dnsVars, reloadVars>>

\* A service: stop, disable and remove the unit, daemon-reload, release the
\* port in the PortAllocator.  A static site: remove the symlink.  Then the
\* secrets file.
process_teardown_resources ==
    /\ td.pc = "resources"
    /\ LET d == td.deployment IN
       /\ IF d.port # NoInt
          THEN /\ units' = RemoveUnit(UnitName(d.project_name, d.branch_slug,
                                               d.service_name))
               /\ port_allocator' = port_allocator \ {d.port}
               /\ UNCHANGED sites
          ELSE /\ sites' = {l \in sites : l.path #
                      SiteLink(d.project_name, d.branch_slug, d.service_name)}
               /\ UNCHANGED <<units, port_allocator>>
       /\ secrets' = secrets \ {SecretsPath(d.project_name, d.branch_slug,
                                            d.service_name)}
    /\ td' = [td EXCEPT !.pc = "release"]
    /\ UNCHANGED <<storeVars, buildStoreVars, buildTaskVars, deploy_queue, users,
                   teardown_queue, router_updates, dep, cleanup, routes,
                   teardown_sent, health_passed, allocVars, monitorVars, dnsVars, reloadVars>>

\* The release step as it would be if the lookup left out the row under
\* teardown itself.
process_teardown_release_ExcludesSelf ==
    /\ td.pc = "release"
    /\ LET d == td.deployment
       IN  IF ~ \E x \in deployments :
                   /\ x.id # d.id /\ x.project_name = d.project_name
                   /\ x.service_name = d.service_name /\ x.branch = d.branch
           THEN /\ preview_databases' = {r \in preview_databases :
                      ~(r.project_name = d.project_name /\ r.branch = d.branch)}
                /\ users' = users \ {sanitize_username(d.project_name, d.branch,
                                                       d.service_name)}
           ELSE UNCHANGED <<preview_databases, users>>
    /\ td' = [td EXCEPT !.pc = "mark"]
    /\ UNCHANGED <<deployments, nextDeploymentId, port_allocations, buildStoreVars,
                   buildTaskVars, deploy_queue, units, sites, secrets,
                   teardown_queue, router_updates, dep, cleanup, port_allocator,
                   routes, teardown_sent, health_passed, allocVars, monitorVars, dnsVars, reloadVars>>

\* find_by_project_service_branch; if it finds no row the preview database
\* of (project, branch) is deleted and the system user removed.
process_teardown_release ==
    /\ td.pc = "release"
    /\ LET d == td.deployment
           remaining_deployments ==
               find_by_project_service_branch(d.project_name, d.service_name, d.branch)
       IN  IF remaining_deployments.id = NoInt
           THEN /\ preview_databases' = {r \in preview_databases :
                      ~(r.project_name = d.project_name /\ r.branch = d.branch)}
                /\ users' = users \ {sanitize_username(d.project_name, d.branch,
                                                       d.service_name)}
           ELSE UNCHANGED <<preview_databases, users>>
    /\ td' = [td EXCEPT !.pc = "mark"]
    /\ UNCHANGED <<deployments, nextDeploymentId, port_allocations, buildStoreVars,
                   buildTaskVars, deploy_queue, units, sites, secrets,
                   teardown_queue, router_updates, dep, cleanup, port_allocator,
                   routes, teardown_sent, health_passed, allocVars, monitorVars, dnsVars, reloadVars>>

\* update(status = TornDown); the update of a row that is gone is an error.
process_teardown_mark ==
    /\ td.pc = "mark"
    /\ IF FindDeployment(td.deployment.id).id # NoInt
       THEN /\ deployments' = SetDeploymentStatus(td.deployment.id, "torn_down")
            /\ td' = [td EXCEPT !.pc = "delete"]
       ELSE /\ td' = [td EXCEPT !.pc = "recv", !.result = "Err"]
            /\ UNCHANGED deployments
    /\ UNCHANGED <<nextDeploymentId, port_allocations, preview_databases,
                   buildStoreVars, buildTaskVars, deploy_queue, osVars,
                   teardown_queue, router_updates, dep, cleanup, port_allocator,
                   routes, teardown_sent, health_passed, allocVars, monitorVars, dnsVars, reloadVars>>

\* delete(deployment_id): the row goes, port_allocations rows that pointed
\* at it keep their port with deployment_id NULL.
process_teardown_delete ==
    /\ td.pc = "delete"
    /\ deployments' = {d \in deployments : d.id # td.deployment.id}
    /\ port_allocations' = PortAllocationsAfterDelete(td.deployment.id)
    /\ td' = [td EXCEPT !.pc = "recv", !.result = "Ok"]
    /\ UNCHANGED <<nextDeploymentId, preview_databases, buildStoreVars,
                   buildTaskVars, deploy_queue, osVars, teardown_queue,
                   router_updates, dep, cleanup, port_allocator, routes,
                   teardown_sent, health_passed, allocVars, monitorVars, dnsVars, reloadVars>>

\* ------------------------------------------------------------------------
\* Auto-expiry: run_cleanup_job
\* ------------------------------------------------------------------------

CleanupIdle == [pc |-> "tick", expired |-> <<>>]

\* Environments find_expired_deployments excludes.
ProtectedEnvironments == {"prod", "staging"}

\* Active rows outside the protected environments.
ExpiryCandidates ==
    {d \in deployments : d.status = "active"
                         /\ d.environment \notin ProtectedEnvironments}

\* find_expired(7, ["prod", "staging"]): last_activity < now - 7 days,
\* status Active, environment none of the excluded ones.
find_expired == {d \in ExpiryCandidates : d.id \in aged}

\* Seven days go by: every row there is now has a last_activity older than
\* the cutoff (nothing the daemon does changes git_ref, so the trigger that
\* refreshes last_activity never fires).
days_pass ==
    /\ aged # {d.id : d \in deployments}
    /\ aged' = aged \cup {d.id : d \in deployments}
    /\ UNCHANGED <<storeVars, buildStoreVars, buildTaskVars, deploy_queue, osVars,
                   deployTaskVars, allocVars, hm, monitor_table, health_status,
                   dnsVars, reloadVars>>

RECURSIVE SeqById(_)
SeqById(S) ==
    IF S = {} THEN <<>>
    ELSE LET d == CHOOSE x \in S : \A y \in S : x.id <= y.id
         IN  <<d>> \o SeqById(S \ {d})

\* interval.tick(), then find_expired_deployments(7).
run_cleanup_job_find ==
    /\ cleanup.pc = "tick"
    /\ find_expired # {}
    /\ cleanup' = [pc |-> "mark", expired |-> SeqById(find_expired)]
    /\ UNCHANGED <<storeVars, buildStoreVars, buildTaskVars, deploy_queue, osVars,
                   teardown_queue, router_updates, dep, td, port_allocator, routes,
                   teardown_sent, health_passed, allocVars, monitorVars, dnsVars, reloadVars>>

\* One turn of the loop: update(status = TearingDown) of the row read by
\* find_expired (an error skips the send), then teardown_tx.send(id).
run_cleanup_job_mark ==
    /\ cleanup.pc = "mark"
    /\ LET d == Head(cleanup.expired) IN
       IF FindDeployment(d.id).id # NoInt
       THEN /\ Len(teardown_queue) < TEARDOWN_CHANNEL_CAPACITY
            /\ deployments' = SetDeploymentStatus(d.id, "tearing_down")
            /\ teardown_queue' = Append(teardown_queue, d.id)
            /\ teardown_sent' = teardown_sent \cup {d.id}
       ELSE UNCHANGED <<deployments, teardown_queue, teardown_sent>>
    /\ cleanup' = IF Tail(cleanup.expired) = <<>> THEN CleanupIdle
                  ELSE [cleanup EXCEPT !.expired = Tail(@)]
    /\ UNCHANGED <<nextDeploymentId, port_allocations, preview_databases,
                   buildStoreVars, buildTaskVars, deploy_queue, osVars,
                   router_updates, dep, td, port_allocator, routes, health_passed,
                   allocVars, monitorVars, dnsVars, reloadVars>>

\* ------------------------------------------------------------------------
\* Webhook ingress: parse_webhook_event and the deliveries that ask for a
\* teardown (branch deleted, pull request closed) or for nothing
\* ------------------------------------------------------------------------

\* parse::ZERO_SHA, the "after" of a push that deletes its branch.
ZERO_SHA == 0

\* The "ref" of push payloads.
RawRefs == {"refs/heads/main", "refs/heads/pr-1", "refs/tags/v1"}

\* Pull request numbers of the model.
PrNumbers == {1}

\* The "action" of pull_request payloads.
PrActions == {"opened", "synchronize", "synchronized", "reopened", "closed", "labeled"}

\* Deliveries by event header and payload.
PushEvents ==
    {[type |-> "push", ref |-> r, after |-> a, action |-> Null, number |-> NoInt] :
        r \in RawRefs, a \in {ZERO_SHA} \cup Commits}

PullRequestEvents ==
    {[type |-> "pull_request", ref |-> Null, after |-> c, action |-> a, number |-> n] :
        c \in Commits, a \in PrActions, n \in PrNumbers}

OtherEvents ==
    {[type |-> "issues", ref |-> Null, after |-> NoInt, action |-> "opened",
      number |-> NoInt]}

\* event.git_ref.strip_prefix("refs/heads/").unwrap_or(&event.git_ref)
strip_prefix(ref) ==
    CASE ref = "refs/heads/main" -> "main"
      [] ref = "refs/heads/pr-1" -> "pr-1"
      [] ref = "refs/heads/feature/x" -> "feature/x"
      [] ref = "refs/heads/feature-x" -> "feature-x"
      [] OTHER -> ref

\* PrRef as it would be if the build were filed under the base branch.
PrRef_BaseBranch(pr_number) == "main"

\* format!("pr-{}", pr_number)
PrRef(pr_number) ==
    CASE pr_number = 1 -> "pr-1"
      [] pr_number = 2 -> "pr-2"
      [] OTHER -> "pr-n"

\* parse::parse_webhook_event
parse_webhook_event(event) ==
    CASE event.type = "push" ->
           [kind |-> "Push", git_ref |-> strip_prefix(event.ref),
            commit_sha |-> event.after, deleted |-> event.after = ZERO_SHA,
            action |-> Null, pr_number |-> NoInt]
      [] event.type = "pull_request" ->
           [kind |-> "PullRequest", git_ref |-> Null, commit_sha |-> event.after,
            deleted |-> FALSE, action |-> event.action, pr_number |-> event.number]
      [] OTHER ->
           [kind |-> "InvalidPayload", git_ref |-> Null, commit_sha |-> NoInt,
            deleted |-> FALSE, action |-> Null, pr_number |-> NoInt]

\* MarkedForTeardown as it would be without the filter on the status.
MarkedForTeardown_AnyStatus(project_name, git_ref) ==
    {d \in deployments : d.project_name = project_name /\ d.branch = git_ref}

\* The rows the UPDATE of mark_for_teardown matches.
MarkedForTeardown(project_name, git_ref) ==
    {d \in deployments : /\ d.project_name = project_name
                         /\ d.branch = git_ref
                         /\ d.status = "active"}

\* DeploymentRepository::mark_for_teardown: the table after the UPDATE.
mark_for_teardown(project_name, git_ref) ==
    {IF d \in MarkedForTeardown(project_name, git_ref)
     THEN [d EXCEPT !.status = "tearing_down"] ELSE d : d \in deployments}

\* What mark_for_teardown hands back to handle_webhook: the affected ids.
mark_for_teardown_ids(project_name, git_ref) ==
    LET marked == SeqById(MarkedForTeardown(project_name, git_ref))
    IN  [i \in 1 .. Len(marked) |-> marked[i].id]

\* The request is turned away before its payload is read: project lookup
\* (404), then verify_signature (401, or 400 when the header is missing).
WebhookRejection(project_name, signature) ==
    IF project_name \notin Projects THEN "ProjectNotFound"
    ELSE IF verify_signature(signature) # "Ok" THEN verify_signature(signature)
    ELSE "Ok"

\* A delivery that ends without asking for a build or a teardown: turned
\* away, not parseable, or a pull request action that is ignored (202).
handle_webhook_respond(h, project_name, signature, event_type, parsed) ==
    /\ wh[h].pc = "idle"
    /\ LET rejection == WebhookRejection(project_name, signature) IN
       wh' = [wh EXCEPT ![h] =
                [WhIdle EXCEPT !.pc = "done",
                               !.event_type = event_type,
                               !.action = IF rejection # "Ok" THEN Null
                                          ELSE parsed.action,
                               !.signature = signature,
                               !.resp = IF rejection # "Ok" THEN StatusOf(rejection)
                                        ELSE IF parsed.kind = "InvalidPayload"
                                        THEN StatusOf("InvalidPayload")
                                        ELSE 202]]
    /\ UNCHANGED <<buildStoreVars, build_queue, cancel, dispatcher, permits, tasks,
                   build_sent, finished, deploy_queue, storeVars, osVars,
                   deployTaskVars, allocVars, monitorVars, dnsVars, reloadVars>>

\* A branch-deleting push or a closed pull request, up to the end of
\* mark_for_teardown.
handle_webhook_mark_for_teardown(h, project_name, signature, event_type, action, git_ref) ==
    /\ wh[h].pc = "idle"
    /\ WebhookRejection(project_name, signature) = "Ok"
    /\ deployments' = mark_for_teardown(project_name, git_ref)
    /\ wh' = [wh EXCEPT ![h] =
                [WhIdle EXCEPT !.pc = "send_teardown", !.kind = "teardown",
                               !.project_name = project_name,
                               !.event_type = event_type, !.action = action,
                               !.signature = signature, !.git_ref = git_ref,
                               !.ids = mark_for_teardown_ids(project_name, git_ref)]]
    /\ UNCHANGED <<nextDeploymentId, port_allocations, preview_databases,
                   buildStoreVars, build_queue, cancel, dispatcher, permits, tasks,
                   build_sent, finished, deploy_queue, osVars, deployTaskVars,
                   allocVars, monitorVars, dnsVars, reloadVars>>

\* for id in ids { teardown_tx.send(id).await }, one turn; after the last
\* one the answer is 202.
handle_webhook_send_teardown(h) ==
    /\ wh[h].pc = "send_teardown"
    /\ IF wh[h].sent < Len(wh[h].ids)
       THEN /\ Len(teardown_queue) < TEARDOWN_CHANNEL_CAPACITY
            /\ teardown_queue' = Append(teardown_queue, wh[h].ids[wh[h].sent + 1])
            /\ teardown_sent' = teardown_sent \cup {wh[h].ids[wh[h].sent + 1]}
            /\ wh' = [wh EXCEPT ![h].sent = @ + 1]
       ELSE /\ wh' = [wh EXCEPT ![h].pc = "done", ![h].resp = 202]
            /\ UNCHANGED <<teardown_queue, teardown_sent>>
    /\ UNCHANGED <<storeVars, buildStoreVars, build_queue, cancel, dispatcher,
                   permits, tasks, build_sent, finished, deploy_queue, osVars,
                   router_updates, dep, td, cleanup, port_allocator, routes,
                   health_passed, allocVars, monitorVars, dnsVars, reloadVars>>

\* handle_webhook from the first line to its first await on the Store or
\* its answer, by what the delivery parses to.
handle_webhook(h, project_name, signature, event) ==
    LET parsed == parse_webhook_event(event) IN
    IF WebhookRejection(project_name, signature) # "Ok"
    THEN handle_webhook_respond(h, project_name, signature, event.type, parsed)
    ELSE IF parsed.kind = "Push" /\ parsed.deleted
    THEN handle_webhook_mark_for_teardown(h, project_name, signature, event.type,
                                          parsed.action, parsed.git_ref)
    ELSE IF parsed.kind = "Push"
    THEN handle_webhook_create_build(h, project_name, signature, event.type,
                                     parsed.action, parsed.git_ref, parsed.commit_sha)
    ELSE IF parsed.kind = "PullRequest"
            /\ parsed.action \in {"opened", "synchronize", "synchronized", "reopened"}
    THEN handle_webhook_create_build(h, project_name, signature, event.type,
                                     parsed.action, PrRef(parsed.pr_number),
                                     parsed.commit_sha)
    ELSE IF parsed.kind = "PullRequest" /\ parsed.action = "closed"
    THEN handle_webhook_mark_for_teardown(h, project_name, signature, event.type,
                                          parsed.action, PrRef(parsed.pr_number))
    ELSE handle_webhook_respond(h, project_name, signature, event.type, parsed)

\* ------------------------------------------------------------------------
\* Router: run_update_handler
\* ------------------------------------------------------------------------

\* find_also_related(services::Entity): the services row of a deployment.
ServiceOf(d) ==
    CHOOSE sv \in Services : sv.project_name = d.project_name
                              /\ sv.name = d.service_name

\* DeploymentRepository::list_active_with_services: the Active rows, in
\* whatever order the database returns them (the query has no ORDER BY).
list_active_with_services ==
    LET active == {d \in deployments : d.status = "active"}
    IN  {rows \in [1 .. Cardinality(active) -> active] :
            \A i, j \in 1 .. Cardinality(active) : rows[i] = rows[j] => i = j}

\* RoutingTable::load_from_deployments_with_services: clear, then for each
\* row insert the route under the row's domain and, if the service has
\* one, under its custom_domain; a later insert replaces an earlier one of
\* the same key.
RECURSIVE load_from_deployments_with_services(_)
load_from_deployments_with_services(rows) ==
    IF rows = <<>> THEN {}
    ELSE LET n      == Len(rows)
             d      == rows[n]
             sv     == ServiceOf(d)
             before == load_from_deployments_with_services(SubSeq(rows, 1, n - 1))
             auto   == RouteInsert(before,
                          RouteOf(d.id, d.domain, d.port, d.store_path, sv.spa))
         IN  IF sv.custom_domain # NoPath
             THEN RouteInsert(auto,
                     RouteOf(d.id, sv.custom_domain, d.port, d.store_path, sv.spa))
             ELSE auto

\* The tables a reload can end with.
LoadFromDeployments ==
    {load_from_deployments_with_services(rows) : rows \in list_active_with_services}

\* update_rx.recv(): DeploymentActive inserts the route, DeploymentRemoved
\* removes it, FullReload reloads.
run_update_handler_recv ==
    /\ router_updates # <<>>
    /\ router_updates' = Tail(router_updates)
    /\ \E reloaded \in LoadFromDeployments :
       LET update == Head(router_updates) IN
       routes' =
          CASE update.type = "DeploymentActive" ->
                 IF update.port = NoInt /\ update.store_path = NoPath
                 THEN routes
                 ELSE RouteInsert(routes,
                         RouteOf(update.deployment_id, update.domain, update.port,
                                 update.store_path, update.spa))
            [] update.type = "DeploymentRemoved" ->
                 {r \in routes : r.domain # update.domain}
            [] OTHER -> reloaded
    /\ UNCHANGED <<storeVars, buildStoreVars, buildTaskVars, deploy_queue, osVars,
                   teardown_queue, dep, td, cleanup, port_allocator,
                   teardown_sent, health_passed, allocVars, monitorVars, dnsVars, reloadVars>>

\* update_rx.recv() returns RecvError::Lagged: the receiver fell behind and
\* the broadcast channel dropped the oldest update.
update_rx_lagged ==
    /\ router_updates # <<>>
    /\ router_updates' = Tail(router_updates)
    /\ UNCHANGED <<storeVars, buildStoreVars, buildTaskVars, deploy_queue, osVars,
                   teardown_queue, routes, dep, td, cleanup, port_allocator,
                   teardown_sent, health_passed, allocVars, monitorVars, dnsVars, reloadVars>>

\* reload_interval.tick(): reload_routing_table.
run_update_handler_reload ==
    /\ \E reloaded \in LoadFromDeployments :
          /\ routes # reloaded
          /\ routes' = reloaded
    /\ UNCHANGED <<storeVars, buildStoreVars, buildTaskVars, deploy_queue, osVars,
                   teardown_queue, router_updates, dep, td, cleanup,
                   port_allocator, teardown_sent, health_passed, allocVars, monitorVars, dnsVars, reloadVars>>

\* ------------------------------------------------------------------------
\* Specifications of the allocator API under concurrent callers
\* ------------------------------------------------------------------------

DnsIdle == [pc |-> "idle", op |-> "none", deployment_id |-> NoInt, domain |-> Null,
            pending |-> <<>>, ret |-> Null]

NoRoute ==
    [domain |-> <<>>, deployment_id |-> NoInt, kind |-> Null, port |-> NoInt,
     path |-> NoPath, spa |-> FALSE]

RlIdle == [pc |-> "idle", rows |-> <<>>, before |-> {}, after |-> {}, ret |-> Null]

InitReloadIdle ==
    /\ routes_lock = "free"
    /\ rl = RlIdle
    /\ lookup = [pc |-> "idle", domain |-> <<>>, route |-> NoRoute, during |-> FALSE]

InitDnsIdle ==
    /\ dns_records = {}
    /\ nextDnsRecordId = 1
    /\ provider_records = {}
    /\ nextProviderRecordId = 1
    /\ dns_call = DnsIdle

InitIdleCallers ==
    /\ pa_call = [c \in Callers |-> PaIdle]
    /\ pa_live = [p \in PORT_MIN .. PORT_MAX |-> 0]
    /\ pd_call = [c \in Callers |-> PdIdle]

\* The build side at start-up: empty tables, all permits free.
InitBuildIdle ==
    /\ builds = {}
    /\ nextBuildId = 1
    /\ build_results = {}
    /\ work_dirs = [b \in BuildIds |-> NoWorkDir]
    /\ build_queue = <<>>
    /\ wh = [h \in Handlers |-> WhIdle]
    /\ cancel = CancelIdle
    /\ dispatcher = [pc |-> "recv", build_id |-> NoInt]
    /\ permits = max_concurrent_builds
    /\ tasks = [b \in BuildIds |-> NoTask]
    /\ build_sent = [b \in BuildIds |-> 0]
    /\ finished = [b \in BuildIds |-> "none"]

\* The clock and the health monitor at start-up: no row is old, the monitor
\* waits for its first tick with an empty table and an empty status map.
InitMonitorIdle ==
    /\ aged = {}
    /\ hm = HmIdle
    /\ monitor_table = {}
    /\ health_status = {}

\* The deployment side at start-up: nothing installed, nothing routed.
InitDeployIdle ==
    /\ deploy_queue = <<>>
    /\ teardown_queue = <<>>
    /\ router_updates = <<>>
    /\ dep = DepIdle
    /\ td = TdIdle
    /\ cleanup = CleanupIdle
    /\ port_allocator = {}
    /\ routes = {}
    /\ units = {}
    /\ sites = {}
    /\ secrets = {}
    /\ users = {}
    /\ teardown_sent = {}
    /\ health_passed = {}
    /\ InitMonitorIdle

InitPorts ==
    /\ deployments = TestDeployments
    /\ nextDeploymentId = 3
    /\ port_allocations = {}
    /\ preview_databases = {}
    /\ InitIdleCallers
    /\ InitDnsIdle
    /\ InitReloadIdle
    /\ InitBuildIdle
    /\ InitDeployIdle

NextPorts ==
    \/ \E c \in Callers, d \in DeploymentIds : allocate_port_read(c, d)
    \/ \E c \in Callers : allocate_port_insert(c)
    \/ \E c \in Callers, p \in PORT_MIN .. PORT_MAX : release_port(c, p)
    \/ \E c \in Callers : pa_return(c)

SpecPorts == InitPorts /\ [][NextPorts]_vars

InitAux ==
    /\ deployments = {}
    /\ nextDeploymentId = 1
    /\ port_allocations = {}
    /\ preview_databases = {}
    /\ InitIdleCallers
    /\ InitDnsIdle
    /\ InitReloadIdle
    /\ InitBuildIdle
    /\ InitDeployIdle

NextAux ==
    \/ \E c \in Callers, pb \in AuxPairs : allocate_find(c, pb[1], pb[2])
    \/ \E c \in Callers : allocate_valkey_db(c)
    \/ \E c \in Callers : allocate_insert(c)
    \/ \E c \in Callers, pb \in AuxPairs : delete_by_project_and_branch(c, pb[1], pb[2])
    \/ \E c \in Callers : pd_return(c)

SpecAux == InitAux /\ [][NextAux]_vars

\* ------------------------------------------------------------------------
\* Specification of the build side: webhook deliveries, the cancel
\* endpoint, the worker pool and its build tasks
\* ------------------------------------------------------------------------

InitBuild ==
    /\ deployments = {}
    /\ nextDeploymentId = 1
    /\ port_allocations = {}
    /\ preview_databases = {}
    /\ InitIdleCallers
    /\ InitDnsIdle
    /\ InitReloadIdle
    /\ InitBuildIdle
    /\ InitDeployIdle

NextBuild ==
    \/ \E h \in Handlers, p \in Projects, c \in Commits :
          handle_webhook_create_build(h, p, "valid", "push", Null, CommitRef(c), c)
    \/ \E h \in Handlers : handle_webhook_send_build(h)
    \/ \E h \in Handlers : handle_webhook_return(h)
    \/ \E b \in BuildIds : cancel_build_find(b)
    \/ cancel_build_update
    \/ cancel_build_return
    \/ run_worker_pool_recv
    \/ run_worker_pool_spawn
    \/ \E b \in BuildIds : process_build_start(b)
    \/ \E b \in BuildIds : process_build_check_cancelled(b)
    \/ \E b \in BuildIds : process_build_clone_failed(b)
    \/ \E b \in BuildIds, m \in Manifests : process_build_clone(b, m)
    \/ \E b \in BuildIds : process_build_parse(b)
    \/ \E b \in BuildIds, ok \in BOOLEAN : process_build_entry(b, ok)
    \/ \E b \in BuildIds : process_build_finish(b)
    \/ \E b \in BuildIds : process_build_send_deploy(b)

SpecBuild == InitBuild /\ [][NextBuild]_vars

\* ------------------------------------------------------------------------
\* Specification of the deployment side: the deployer, the teardown worker,
\* the auto-expiry job and the router's update handler.  It starts where
\* two builds of a pull request's branch have succeeded: the first has sent
\* its deployment request, the task of the second is about to.
\* ------------------------------------------------------------------------

DeployedBuilds == {1, 2}

DeployedManifest == Manifest({"api"}, {"docs"}, TRUE)

InitDeploy ==
    /\ builds = {[id |-> b, project_name |-> "demo", branch |-> CommitRef(b),
                  git_ref |-> CommitRef(b), commit_sha |-> b,
                  status |-> "success"] : b \in DeployedBuilds}
    /\ nextBuildId = 3
    /\ build_results = {[build_id |-> b, service_name |-> n, status |-> "success",
                         store_path |-> StorePath(b, n)] :
                           b \in DeployedBuilds, n \in {"api", "docs"}}
    /\ work_dirs = [b \in BuildIds |->
           IF b \in DeployedBuilds
           THEN [valid |-> TRUE, services |-> DeployedManifest.services,
                 static_sites |-> DeployedManifest.static_sites,
                 preview_database |-> DeployedManifest.preview_database,
                 cloned |-> TRUE]
           ELSE NoWorkDir]
    /\ build_queue = <<>>
    /\ wh = [h \in Handlers |-> WhIdle]
    /\ cancel = CancelIdle
    /\ dispatcher = [pc |-> "recv", build_id |-> NoInt]
    /\ permits = max_concurrent_builds - 1
    /\ tasks = [b \in BuildIds |->
           IF b = 2 THEN [NoTask EXCEPT !.pc = "send_deploy"] ELSE NoTask]
    /\ build_sent = [b \in BuildIds |-> IF b \in DeployedBuilds THEN 1 ELSE 0]
    /\ finished = [b \in BuildIds |-> IF b = 1 THEN "Ok" ELSE "none"]
    /\ deployments = {}
    /\ nextDeploymentId = 1
    /\ port_allocations = {}
    /\ preview_databases = {}
    /\ InitIdleCallers
    /\ InitDnsIdle
    /\ InitReloadIdle
    /\ deploy_queue = <<[build_id |-> 1, project_name |-> "demo",
                         git_ref |-> CommitRef(1)]>>
    /\ teardown_queue = <<>>
    /\ router_updates = <<>>
    /\ dep = DepIdle
    /\ td = TdIdle
    /\ cleanup = CleanupIdle
    /\ port_allocator = {}
    /\ routes = {}
    /\ units = {}
    /\ sites = {}
    /\ secrets = {}
    /\ users = {}
    /\ teardown_sent = {}
    /\ health_passed = {}
    /\ InitMonitorIdle

NextDeploy ==
    \/ \E b \in BuildIds : process_build_send_deploy(b)
    \/ run_deployer_recv
    \/ deploy_service_prepare
    \/ deploy_service_start
    \/ \E passed \in BOOLEAN : deploy_service_health(passed)
    \/ deploy_service_register
    \/ deploy_service_drain
    \/ deploy_site_symlink
    \/ deploy_site_remove
    \/ deploy_site_rename
    \/ deploy_site_insert
    \/ run_teardown_worker_recv
    \/ process_teardown_resources
    \/ process_teardown_release
    \/ process_teardown_mark
    \/ process_teardown_delete
    \/ days_pass
    \/ run_cleanup_job_find
    \/ run_cleanup_job_mark
    \/ run_update_handler_recv
    \/ run_update_handler_reload

SpecDeploy == InitDeploy /\ [][NextDeploy]_vars

\* ------------------------------------------------------------------------
\* Specification of webhook ingress with expiry and teardown, after two
\* builds were deployed: build 1 (commit 1 of pr-1: service api with a
\* preview database, static site docs) and build 2 (commit 3 of main:
\* service api).
\* ------------------------------------------------------------------------

HookRequest(b) == [build_id |-> b, project_name |-> "demo",
                   git_ref |-> IF b = 1 THEN "pr-1" ELSE "main"]

HookCommit(b) == IF b = 1 THEN 1 ELSE 3

HookDeployments ==
    { NewDeployment(1, HookRequest(1), "api", StorePath(1, "api"), PORT_MIN),
      NewDeployment(2, HookRequest(1), "docs", StorePath(1, "docs"), NoInt),
      NewDeployment(3, HookRequest(2), "api", StorePath(3, "api"), PORT_MIN + 1) }

\* What deploy_service and deploy_site left behind for a set of rows.
InitDeployed(rows) ==
    /\ deployments = rows
    /\ port_allocations = {[port |-> d.port, deployment_id |-> d.id] :
                              d \in {x \in rows : x.port # NoInt}}
    /\ units = {[name |-> UnitName(d.project_name, d.branch_slug, d.service_name),
                 store_path |-> d.store_path, port |-> d.port, running |-> TRUE] :
                   d \in {x \in rows : x.port # NoInt}}
    /\ secrets = {SecretsPath(d.project_name, d.branch_slug, d.service_name) :
                     d \in {x \in rows : x.port # NoInt}}
    /\ users = {sanitize_username(d.project_name, d.branch_slug, d.service_name) :
                   d \in {x \in rows : x.port # NoInt}}
    /\ sites = {[path |-> SiteLink(d.project_name, d.branch_slug, d.service_name),
                 target |-> d.store_path] : d \in {x \in rows : x.port = NoInt}}
    /\ health_passed = {[build_id |-> d.store_path[2], project_name |-> d.project_name,
                         service_name |-> d.service_name, git_ref |-> d.git_ref,
                         store_path |-> d.store_path, port |-> d.port,
                         predecessor |-> NoInt] : d \in {x \in rows : x.port # NoInt}}

InitHook ==
    /\ builds = {[id |-> b, project_name |-> "demo",
                  branch |-> HookRequest(b).git_ref, git_ref |-> HookRequest(b).git_ref,
                  commit_sha |-> HookCommit(b), status |-> "success"] : b \in {1, 2}}
    /\ nextBuildId = 3
    /\ build_results =
          {[build_id |-> 1, service_name |-> n, status |-> "success",
            store_path |-> StorePath(1, n)] : n \in {"api", "docs"}}
          \cup {[build_id |-> 2, service_name |-> "api", status |-> "success",
                 store_path |-> StorePath(3, "api")]}
    /\ work_dirs = [b \in BuildIds |->
           IF b = 1 THEN [valid |-> TRUE, services |-> {"api"},
                          static_sites |-> {"docs"}, preview_database |-> TRUE,
                          cloned |-> TRUE]
           ELSE IF b = 2 THEN [valid |-> TRUE, services |-> {"api"},
                               static_sites |-> {}, preview_database |-> FALSE,
                               cloned |-> TRUE]
           ELSE NoWorkDir]
    /\ build_queue = <<>>
    /\ wh = [h \in Handlers |-> WhIdle]
    /\ cancel = CancelIdle
    /\ dispatcher = [pc |-> "recv", build_id |-> NoInt]
    /\ permits = max_concurrent_builds
    /\ tasks = [b \in BuildIds |-> NoTask]
    /\ build_sent = [b \in BuildIds |-> IF b \in {1, 2} THEN 1 ELSE 0]
    /\ finished = [b \in BuildIds |-> IF b \in {1, 2} THEN "Ok" ELSE "none"]
    /\ InitDeployed(HookDeployments)
    /\ nextDeploymentId = 4
    /\ preview_databases = {[project_name |-> "demo", branch |-> "pr-1",
                             database_name |-> DatabaseName("demo", "pr-1"),
                             valkey_db |-> VALKEY_DB_MIN]}
    /\ InitIdleCallers
    /\ InitDnsIdle
    /\ InitReloadIdle
    /\ deploy_queue = <<>>
    /\ teardown_queue = <<>>
    /\ router_updates = <<>>
    /\ dep = DepIdle
    /\ td = TdIdle
    /\ cleanup = CleanupIdle
    /\ port_allocator = {}
    /\ routes \in LoadFromDeployments
    /\ teardown_sent = {}
    /\ InitMonitorIdle

NextHook ==
    \/ \E h \in Handlers, signature \in Signatures,
          event \in PushEvents \cup PullRequestEvents \cup OtherEvents :
          handle_webhook(h, "demo", signature, event)
    \/ \E h \in Handlers : handle_webhook_send_build(h)
    \/ \E h \in Handlers : handle_webhook_send_teardown(h)
    \/ days_pass
    \/ run_cleanup_job_find
    \/ run_cleanup_job_mark
    \/ run_teardown_worker_recv
    \/ process_teardown_resources
    \/ process_teardown_release
    \/ process_teardown_mark
    \/ process_teardown_delete

SpecHook == InitHook /\ [][NextHook]_vars

\* ------------------------------------------------------------------------
\* Router: run_health_monitor.  It is handed the RoutingTable that main
\* creates (monitor_table), not the one run_router creates and serves
\* requests from (routes).
\* ------------------------------------------------------------------------

\* status_map.entry(domain).or_insert(HealthStatus { 0, true })
HealthStatusOf(domain) ==
    IF \E st \in health_status : st.domain = domain
    THEN CHOOSE st \in health_status : st.domain = domain
    ELSE [domain |-> domain, consecutive_failures |-> 0, is_healthy |-> TRUE]

\* interval.tick(), then list_active: the Active deployments with a port.
run_health_monitor_tick ==
    /\ hm.pc = "tick"
    /\ LET services == {d \in deployments : d.status = "active" /\ d.port # NoInt}
       IN  /\ services # {}
           /\ hm' = [pc |-> "probe", pending |-> SeqById(services)]
    /\ UNCHANGED <<storeVars, buildStoreVars, buildTaskVars, deploy_queue, osVars,
                   deployTaskVars, allocVars, aged, monitor_table, health_status,
                   dnsVars, reloadVars>>

\* One turn of the loop: GET /health of the next deployment read at the
\* tick (is_healthy: a 2xx answer within the timeout), then the status of
\* its domain; the third failure in a row of a healthy domain removes the
\* domain from the monitor's table.
run_health_monitor_probe(is_healthy) ==
    /\ hm.pc = "probe"
    /\ LET d        == Head(hm.pending)
           status   == HealthStatusOf(d.domain)
           failures == status.consecutive_failures + 1
           evict    == /\ ~ is_healthy
                       /\ failures >= MAX_CONSECUTIVE_HEALTH_FAILURES
                       /\ status.is_healthy
       IN  /\ is_healthy \/ status.consecutive_failures < MaxProbeFailures
           /\ health_status' =
                 {st \in health_status : st.domain # d.domain}
                 \cup {IF is_healthy
                       THEN [domain |-> d.domain, consecutive_failures |-> 0,
                             is_healthy |-> TRUE]
                       ELSE [domain |-> d.domain, consecutive_failures |-> failures,
                             is_healthy |-> status.is_healthy /\ ~ evict]}
           /\ monitor_table' = IF evict
                                THEN {r \in monitor_table : r.domain # d.domain}
                                ELSE monitor_table
    /\ hm' = IF Tail(hm.pending) = <<>> THEN HmIdle
             ELSE [hm EXCEPT !.pending = Tail(@)]
    /\ UNCHANGED <<storeVars, buildStoreVars, buildTaskVars, deploy_queue, osVars,
                   deployTaskVars, allocVars, aged,
                   dnsVars, reloadVars>>

\* ------------------------------------------------------------------------
\* Specification of the health monitor beside the router: the three
\* deployments of the ingress specification are installed and routed, the
\* monitor probes them, the cleanup job and the teardown worker retire the
\* ones that expire, and the update handler reloads periodically.
\* ------------------------------------------------------------------------

NextHealth ==
    \/ run_health_monitor_tick
    \/ \E is_healthy \in BOOLEAN : run_health_monitor_probe(is_healthy)
    \/ run_update_handler_reload
    \/ days_pass
    \/ run_cleanup_job_find
    \/ run_cleanup_job_mark
    \/ run_teardown_worker_recv
    \/ process_teardown_resources
    \/ process_teardown_release
    \/ process_teardown_mark
    \/ process_teardown_delete

SpecHealth == InitHook /\ [][NextHealth]_vars

\* ------------------------------------------------------------------------
\* Specification of the router's table against the Store: three builds of
\* the project are deployed one after the other (docs on main, api and docs
\* on feature/x, api on feature-x), the cleanup job and the teardown worker
\* retire what expires, and the update handler follows by broadcast, which
\* can lag, and by periodic reload.
\* ------------------------------------------------------------------------

RouterRef(b) ==
    CASE b = 1 -> "main"
      [] b = 2 -> "feature/x"
      [] OTHER -> "feature-x"

InitRouter ==
    /\ builds = {[id |-> b, project_name |-> "demo", branch |-> RouterRef(b),
                  git_ref |-> RouterRef(b), commit_sha |-> b,
                  status |-> "success"] : b \in 1 .. 3}
    /\ nextBuildId = 4
    /\ build_results =
          {[build_id |-> b, service_name |-> "docs", status |-> "success",
            store_path |-> StorePath(b, "docs")] : b \in {1, 2}}
          \cup {[build_id |-> b, service_name |-> "api", status |-> "success",
                 store_path |-> StorePath(b, "api")] : b \in {2, 3}}
    /\ work_dirs = [b \in BuildIds |->
           [valid |-> TRUE,
            services |-> IF b \in {2, 3} THEN {"api"} ELSE {},
            static_sites |-> IF b \in {1, 2} THEN {"docs"} ELSE {},
            preview_database |-> FALSE, cloned |-> TRUE]]
    /\ build_queue = <<>>
    /\ wh = [h \in Handlers |-> WhIdle]
    /\ cancel = CancelIdle
    /\ dispatcher = [pc |-> "recv", build_id |-> NoInt]
    /\ permits = max_concurrent_builds
    /\ tasks = [b \in BuildIds |-> NoTask]
    /\ build_sent = [b \in BuildIds |-> 1]
    /\ finished = [b \in BuildIds |-> "Ok"]
    /\ deployments = {}
    /\ nextDeploymentId = 1
    /\ port_allocations = {}
    /\ preview_databases = {}
    /\ InitIdleCallers
    /\ InitDnsIdle
    /\ InitReloadIdle
    /\ deploy_queue = [b \in 1 .. 3 |->
           [build_id |-> b, project_name |-> "demo", git_ref |-> RouterRef(b)]]
    /\ teardown_queue = <<>>
    /\ router_updates = <<>>
    /\ dep = DepIdle
    /\ td = TdIdle
    /\ cleanup = CleanupIdle
    /\ port_allocator = {}
    /\ routes = {}
    /\ units = {}
    /\ sites = {}
    /\ secrets = {}
    /\ users = {}
    /\ teardown_sent = {}
    /\ health_passed = {}
    /\ InitMonitorIdle

NextRouter ==
    \/ run_deployer_recv
    \/ deploy_service_prepare
    \/ deploy_service_start
    \/ \E passed \in BOOLEAN : deploy_service_health(passed)
    \/ deploy_service_register
    \/ deploy_site_symlink
    \/ deploy_site_remove
    \/ deploy_site_rename
    \/ deploy_site_insert
    \/ run_teardown_worker_recv
    \/ process_teardown_resources
    \/ process_teardown_release
    \/ process_teardown_mark
    \/ process_teardown_delete
    \/ days_pass
    \/ run_cleanup_job_find
    \/ run_cleanup_job_mark
    \/ run_update_handler_recv
    \/ update_rx_lagged
    \/ run_update_handler_reload

SpecRouter == InitRouter /\ [][NextRouter]_vars

\* ------------------------------------------------------------------------
\* Specification of process_teardown over its inputs: the requests waiting
\* on the teardown channel and the status of the rows they name, with the
\* three deployments of the ingress specification installed.
\* ------------------------------------------------------------------------

\* sea_orm_active_enums::DeploymentStatus
DeploymentStatuses ==
    {"pending", "building", "active", "failed", "tearing_down", "torn_down"}

\* The requests on the channel at the start: one or two deployment ids.
TeardownRequests ==
    {<<i>> : i \in 1 .. 3} \cup {<<i, j>> : i \in 1 .. 3, j \in 1 .. 3}

InitTeardown ==
    /\ \E status \in [1 .. 3 -> DeploymentStatuses] :
          InitDeployed({[d EXCEPT !.status = status[d.id]] : d \in HookDeployments})
    /\ teardown_queue \in TeardownRequests
    /\ teardown_sent = {teardown_queue[i] : i \in 1 .. Len(teardown_queue)}
    /\ nextDeploymentId = 4
    /\ preview_databases = {[project_name |-> "demo", branch |-> "pr-1",
                             database_name |-> DatabaseName("demo", "pr-1"),
                             valkey_db |-> VALKEY_DB_MIN]}
    /\ InitIdleCallers
    /\ InitDnsIdle
    /\ InitReloadIdle
    /\ InitBuildIdle
    /\ deploy_queue = <<>>
    /\ router_updates = <<>>
    /\ dep = DepIdle
    /\ td = TdIdle
    /\ cleanup = CleanupIdle
    /\ port_allocator = {}
    /\ routes \in LoadFromDeployments
    /\ InitMonitorIdle

NextTeardown ==
    \/ run_teardown_worker_recv
    \/ process_teardown_resources
    \/ process_teardown_release
    \/ process_teardown_mark
    \/ process_teardown_delete

SpecTeardown == InitTeardown /\ [][NextTeardown]_vars

\* ------------------------------------------------------------------------
\* C3  Port uniqueness: for any interleaving of concurrent allocate_port
\* calls, no two successful calls return the same port (while the first
\* allocation is still held), no two PortAllocation rows share a port, and
\* every returned port lies in [18000, 19999].
\* ------------------------------------------------------------------------
PortUniqueness ==
    /\ \A p \in PORT_MIN .. PORT_MAX : pa_live[p] <= 1
    /\ \A r1, r2 \in port_allocations : r1.port = r2.port => r1 = r2
    /\ \A c \in Callers :
          (pa_call[c].op = "allocate_port" /\ pa_call[c].ret = "Ok")
             => (pa_call[c].port >= 18000 /\ pa_call[c].port <= 19999)

\* Two callers picked the same free port; one insert went through and the
\* other collided on the primary key.
PortUniquenessWitness ==
    \E c1, c2 \in Callers :
        /\ c1 # c2
        /\ pa_call[c1].op = "allocate_port" /\ pa_call[c1].ret = "Ok"
        /\ pa_call[c2].op = "allocate_port" /\ pa_call[c2].ret = "Database"
        /\ pa_call[c1].port = pa_call[c2].port

\* ------------------------------------------------------------------------
\* C5  Auxiliary-DB uniqueness: two distinct (project, branch) pairs that
\* both have a live PreviewDatabase row never hold the same valkey_db slot,
\* and every slot lies in [0, 15].
\* ------------------------------------------------------------------------
AuxDbUniqueness ==
    /\ \A r1, r2 \in preview_databases :
          <<r1.project_name, r1.branch>> # <<r2.project_name, r2.branch>>
             => r1.valkey_db # r2.valkey_db
    /\ \A r \in preview_databases : r.valkey_db \in 0 .. 15

\* ------------------------------------------------------------------------
\* C7  Build dedup: whatever deliveries carry the same (project,
\* commit_sha), one after the other or at once, at most one Build row holds
\* that pair, every delivery that got as far as create_build finds or leaves
\* such a row, no build id is put on the build queue more than once, and a
\* delivery that met the existing row is answered 200 and enqueues nothing.
\* ------------------------------------------------------------------------
BuildDedup ==
    /\ \A b1, b2 \in builds :
          (b1.project_name = b2.project_name /\ b1.commit_sha = b2.commit_sha)
             => b1 = b2
    /\ \A id \in BuildIds : build_sent[id] <= 1
    /\ \A h \in Handlers :
          (wh[h].kind = "build" /\ wh[h].pc \in {"send", "done"})
             => \E b \in builds : /\ b.project_name = wh[h].project_name
                                  /\ b.commit_sha = wh[h].commit_sha
    /\ \A h \in Handlers :
          (wh[h].kind = "build" /\ wh[h].duplicate)
             => (wh[h].resp = 200 /\ wh[h].build_id = NoInt)

\* Two deliveries of one commit are answered: one created and enqueued the
\* build, the other met the unique index.
BuildDedupWitness ==
    \E h1, h2 \in Handlers :
        /\ h1 # h2
        /\ wh[h1].pc = "done" /\ wh[h1].build_id # NoInt /\ wh[h1].resp = 200
        /\ wh[h2].pc = "done" /\ wh[h2].duplicate /\ wh[h2].resp = 200
        /\ wh[h1].commit_sha = wh[h2].commit_sha
        /\ build_sent[wh[h1].build_id] = 1

\* ------------------------------------------------------------------------
\* C8  Cancellation is final: a Build row whose status is cancelled keeps
\* that status in every step; no step of a build task writes building,
\* success or failed over it.
\* ------------------------------------------------------------------------
CancelledIsFinal ==
    [][\A b \in builds : b.status = "cancelled"
          => \A b2 \in builds' : b2.id = b.id => b2.status = "cancelled"]_vars

\* ------------------------------------------------------------------------
\* C9  Errors degrade to failed: a Build row whose task returned an error
\* is in status failed (or cancelled, if the cancel endpoint wrote last),
\* and no Build row is in status building once its task has returned.
\* ------------------------------------------------------------------------
ErrorsLeaveFailed ==
    \A b \in builds :
        /\ finished[b.id] = "Err" => b.status \in {"failed", "cancelled"}
        /\ finished[b.id] # "none" => b.status # "building"

\* ------------------------------------------------------------------------
\* C10  Bounded build concurrency: the tasks executing process_build never
\* outnumber max_concurrent_builds; every running task holds exactly one
\* permit of the semaphore and a task that ended holds none, so the permits
\* that are free plus the running tasks always make max_concurrent_builds.
\* ------------------------------------------------------------------------
BuildConcurrencyBound ==
    /\ Cardinality(RunningTasks) <= max_concurrent_builds
    /\ permits >= 0
    /\ permits + Cardinality(RunningTasks) = max_concurrent_builds

\* A task has ended and given its permit back, and the build that waited
\* behind it is running on that permit.
BuildConcurrencyBoundWitness ==
    /\ \E b \in BuildIds : finished[b] # "none"
    /\ Cardinality(RunningTasks) = max_concurrent_builds
    /\ permits = 0

\* ------------------------------------------------------------------------
\* C1  One Active deployment per key: in every reachable state no two
\* distinct deployment rows with the same (project, service, branch) are
\* both Active, for services and for static sites, through deploys,
\* redeploys, expiry and teardown.
\* ------------------------------------------------------------------------
OneActivePerKey ==
    \A d1, d2 \in deployments :
        ( /\ d1.project_name = d2.project_name
          /\ d1.service_name = d2.service_name
          /\ d1.branch = d2.branch
          /\ d1.status = "active" /\ d2.status = "active" ) => d1 = d2

\* A redeploy has passed its health check while its predecessor is still
\* Active, next to an Active static site.
OneActivePerKeyWitness ==
    /\ \E e \in health_passed :
          /\ e.predecessor # NoInt
          /\ FindDeployment(e.predecessor).status = "active"
    /\ \E d \in deployments : d.port = NoInt /\ d.status = "active"

\* The pipeline is at rest: every channel is empty and every task waits.
Quiescent ==
    /\ build_queue = <<>> /\ deploy_queue = <<>>
    /\ teardown_queue = <<>> /\ router_updates = <<>>
    /\ RunningTasks = {} /\ dispatcher.pc = "recv"
    /\ dep.pc = "recv" /\ td.pc = "recv" /\ cleanup.pc = "tick"

\* ------------------------------------------------------------------------
\* C2  Blue/green replace: when a service with an Active deployment of
\* (project, branch) is deployed again from a new build and the health check
\* passes, then at rest (and with no teardown requested other than the
\* predecessor's) exactly one Active deployment of the key exists, it
\* carries the new build's store_path and port, the predecessor's row is
\* gone, and the routing table maps the domain to the new port.
\* ------------------------------------------------------------------------
BlueGreenReplace ==
    \A e \in health_passed :
        (e.predecessor # NoInt /\ Quiescent /\ teardown_sent \subseteq {e.predecessor})
        => LET active == {d \in deployments :
                             /\ d.project_name = e.project_name
                             /\ d.service_name = e.service_name
                             /\ d.branch = e.git_ref /\ d.status = "active"}
           IN  /\ Cardinality(active) = 1
               /\ \A d \in active : d.store_path = e.store_path /\ d.port = e.port
               /\ FindDeployment(e.predecessor).id = NoInt
               /\ \E r \in routes :
                     /\ r.domain = generate_deployment_domain(e.service_name,
                                       sanitize_identifier(e.git_ref), e.project_name)
                     /\ r.kind = "Service" /\ r.port = e.port

\* ------------------------------------------------------------------------
\* C4  Teardown frees the port: once the teardown worker has finished
\* tearing down a service deployment, port_allocations holds no row left
\* over for that deployment's port (a row of that port, if any, belongs to a
\* deployment that exists).
\* ------------------------------------------------------------------------
TeardownReleasesPort ==
    (td.pc = "recv" /\ td.result = "Ok" /\ td.deployment.port # NoInt)
    => ~ \E r \in port_allocations :
            /\ r.port = td.deployment.port
            /\ r.deployment_id \notin DeploymentIds

\* ------------------------------------------------------------------------
\* C6  The last teardown frees the auxiliary DB: once the teardown worker
\* has finished a deployment and the deployer is idle, if no deployment of
\* that (project, branch) remains then no preview_databases row of that
\* (project, branch) remains either.
\* ------------------------------------------------------------------------
LastTeardownReleasesAuxDb ==
    ( /\ td.pc = "recv" /\ td.result = "Ok" /\ dep.pc = "recv"
      /\ ~ \E d \in deployments : /\ d.project_name = td.deployment.project_name
                                  /\ d.branch = td.deployment.branch )
    => ~ \E r \in preview_databases : /\ r.project_name = td.deployment.project_name
                                      /\ r.branch = td.deployment.branch

\* The teardown of deployment id has completed: the id was handed out and
\* its row has been deleted (process_teardown is the only code that deletes).
TeardownCompleted(id) == id < nextDeploymentId /\ FindDeployment(id).id = NoInt

\* ------------------------------------------------------------------------
\* C11  Teardown idempotence: when the teardown worker takes a request for a
\* deployment id whose teardown already completed, the run ends without an
\* error result and leaves the Store tables and the filesystem (units,
\* symlinks, secrets files, users) exactly as they were.
\* ------------------------------------------------------------------------
TeardownIdempotent ==
    [][ ( /\ td.pc = "recv" /\ teardown_queue # <<>>
          /\ teardown_queue' = Tail(teardown_queue)
          /\ TeardownCompleted(Head(teardown_queue)) )
        => ( /\ td'.result \notin {"NotFound", "Err"}
             /\ UNCHANGED <<storeVars, osVars>> ) ]_vars

\* ------------------------------------------------------------------------
\* C12  A request for a row that is not TearingDown changes nothing: when
\* the teardown worker takes a request naming an existing deployment whose
\* status is not TearingDown, the run ends there, and the deployments row,
\* the port allocations, the preview databases, the units, symlinks, secrets
\* files, users and the in-memory port allocator are all as they were.
\* ------------------------------------------------------------------------
TeardownSkipsOtherStatuses ==
    [][ ( /\ td.pc = "recv" /\ teardown_queue # <<>>
          /\ teardown_queue' = Tail(teardown_queue)
          /\ FindDeployment(Head(teardown_queue)).id # NoInt
          /\ FindDeployment(Head(teardown_queue)).status # "tearing_down" )
        => ( /\ td'.pc = "recv" /\ td'.result = "Skipped"
             /\ UNCHANGED <<storeVars, osVars, port_allocator>> ) ]_vars

\* A request for an Active service deployment was skipped; its unit, its
\* port allocation and its row are there.
TeardownSkipsOtherStatusesWitness ==
    /\ td.pc = "recv" /\ td.result = "Skipped"
    /\ td.deployment.status = "active" /\ td.deployment.port # NoInt
    /\ td.deployment \in deployments
    /\ \E u \in units : u.port = td.deployment.port
    /\ \E r \in port_allocations : r.deployment_id = td.deployment.id

PullRequestBuildActions == {"opened", "synchronize", "synchronized", "reopened"}

PullRequestHandled ==
    [][ \A h \in Handlers :
          /\ ( /\ wh[h].pc = "idle" /\ wh'[h].event_type = "pull_request"
               /\ wh'[h].action \in PullRequestBuildActions )
             => IF \E b \in builds : /\ b.project_name = wh'[h].project_name
                                     /\ b.commit_sha = wh'[h].commit_sha
                THEN /\ wh'[h].pc = "done" /\ wh'[h].resp = 200
                     /\ UNCHANGED <<builds, build_queue, storeVars, teardown_queue>>
                ELSE /\ wh'[h].pc = "send"
                     /\ \E b \in builds' \ builds :
                          /\ builds' = builds \cup {b}
                          /\ b.id = wh'[h].build_id
                          /\ b.project_name = wh'[h].project_name
                          /\ b.branch = "pr-1" /\ b.git_ref = "pr-1"
                          /\ b.commit_sha = wh'[h].commit_sha
                          /\ b.status = "queued"
                     /\ UNCHANGED <<build_queue, storeVars, teardown_queue>>
          /\ ( /\ wh[h].pc = "send" /\ wh[h].event_type = "pull_request"
               /\ wh'[h] # wh[h] )
             => /\ build_queue' = Append(build_queue, wh[h].build_id)
                /\ wh'[h].pc = "done" /\ wh'[h].resp = 200
                /\ UNCHANGED <<builds, storeVars, teardown_queue>>
          /\ ( /\ wh[h].pc = "idle" /\ wh'[h].event_type = "pull_request"
               /\ wh'[h].action = "closed" )
             => LET marked == {d \in deployments :
                                 /\ d.project_name = wh'[h].project_name
                                 /\ d.branch = "pr-1" /\ d.status = "active"}
                IN  /\ deployments' =
                          (deployments \ marked)
                          \cup {[d EXCEPT !.status = "tearing_down"] : d \in marked}
                    /\ {wh'[h].ids[i] : i \in 1 .. Len(wh'[h].ids)}
                          = {d.id : d \in marked}
                    /\ UNCHANGED <<builds, nextBuildId, build_queue>>
          /\ ( /\ wh[h].pc = "idle" /\ wh'[h].event_type = "pull_request"
               /\ wh'[h].action \notin PullRequestBuildActions \cup {"closed", Null} )
             => /\ wh'[h].pc = "done" /\ wh'[h].resp = 202
                /\ UNCHANGED <<builds, nextBuildId, build_queue, storeVars,
                               teardown_queue>> ]_vars

\* A pull request "reopened" with a commit that had no Build has been
\* answered: the new Build row of branch pr-1 is on the build channel.
PullRequestHandledWitness ==
    \E h \in Handlers :
       /\ wh[h].pc = "done" /\ wh[h].event_type = "pull_request"
       /\ wh[h].action = "reopened" /\ wh[h].resp = 200 /\ ~wh[h].duplicate
       /\ \E b \in builds : /\ b.id = wh[h].build_id /\ b.branch = "pr-1"
                            /\ b.commit_sha = wh[h].commit_sha
                            /\ b.status = "queued"
       /\ build_queue = <<wh[h].build_id>>

\* C18 as stated: whatever came before, an accepted pull_request delivery
\* with a build action inserts a Build row for branch pr-1.
PullRequestAlwaysBuilds ==
    [][ \A h \in Handlers :
          ( /\ wh[h].pc = "idle" /\ wh'[h].event_type = "pull_request"
            /\ wh'[h].action \in PullRequestBuildActions )
          => \E b \in builds' \ builds : b.branch = "pr-1" ]_vars

ExpiryMarksOnlyActive ==
    [][ (cleanup.pc = "mark" /\ cleanup' # cleanup)
        => \A d \in deployments, e \in deployments' :
              (e.id = d.id /\ e.status # d.status)
              => /\ d.status = "active"
                 /\ e.status = "tearing_down"
                 /\ d.environment \notin ProtectedEnvironments
                 /\ d.id \in aged
                 /\ teardown_queue' = Append(teardown_queue, d.id) ]_vars

\* ------------------------------------------------------------------------
\* C14  The table after a full reload.  When reload_routing_table has
\* rebuilt the table, its keys are the domains of the Active deployments
\* together with the custom_domain of every Active deployment whose service
\* has one; for such a deployment the route under its domain and the route
\* under the custom_domain are the same route; and every route is the route
\* of an Active deployment (what DeploymentActive updates had added for
\* deployments that are not Active any more is gone).
\* ------------------------------------------------------------------------
ReloadMatchesStore ==
    [][ (routes' # routes /\ UNCHANGED router_updates)
        => LET active == {d \in deployments : d.status = "active"}
               custom == {d \in active : ServiceOf(d).custom_domain # NoPath}
           IN  /\ {r.domain : r \in routes'}
                     = {d.domain : d \in active}
                       \cup {ServiceOf(d).custom_domain : d \in custom}
               /\ \A r \in routes' : \E d \in active : d.id = r.deployment_id
               /\ \A d \in custom :
                     \E r1, r2 \in routes' :
                        /\ r1.domain = d.domain
                        /\ r2.domain = ServiceOf(d).custom_domain
                        /\ r1.deployment_id = r2.deployment_id
                        /\ r1.kind = r2.kind /\ r1.port = r2.port
                        /\ r1.path = r2.path /\ r1.spa = r2.spa ]_vars

\* ------------------------------------------------------------------------
\* C13  The periodic reload brings the table in line with the Store,
\* whatever happened to the broadcast updates: when reload_routing_table
\* has rebuilt the table from the Store as it stands, every Active
\* deployment's domain is the key of exactly one route, that route carries
\* the deployment's id and its port (service) or store path (static site),
\* and no route belongs to a deployment that is not Active.
\* ------------------------------------------------------------------------
RoutesFollowStore ==
    [][ (routes' # routes /\ UNCHANGED router_updates)
        => /\ \A d \in {x \in deployments : x.status = "active"} :
                 \E r \in routes' :
                    /\ r.domain = d.domain
                    /\ r.deployment_id = d.id
                    /\ IF d.port # NoInt
                       THEN r.kind = "Service" /\ r.port = d.port
                       ELSE r.kind = "StaticSite" /\ r.path = d.store_path
                    /\ \A r2 \in routes' : r2.domain = d.domain => r2 = r
           /\ \A r \in routes' :
                 FindDeployment(r.deployment_id).status = "active" ]_vars

\* ------------------------------------------------------------------------
\* C15  Health eviction.  When the monitor counts the third failed probe in
\* a row for a domain it held healthy, the table that route_request looks
\* domains up in has no route for that domain any more and the deployments
\* table is as it was; and a domain is only ever marked unhealthy with at
\* least three failures in a row counted.
\* ------------------------------------------------------------------------
HealthEvictionRemovesRoute ==
    [][ \A st \in health_status' :
          (~ st.is_healthy /\ HealthStatusOf(st.domain).is_healthy)
          => /\ st.consecutive_failures >= MAX_CONSECUTIVE_HEALTH_FAILURES
             /\ ~ \E r \in routes' : r.domain = st.domain
             /\ UNCHANGED deployments ]_vars

\* ------------------------------------------------------------------------
\* C16  No reload undoes an eviction: a reload of the table, while the
\* monitor holds a domain unhealthy (its probes have failed three times in
\* a row and none has succeeded since), leaves the table without a route
\* for that domain.
\* ------------------------------------------------------------------------
ReloadKeepsEviction ==
    [][ (routes' # routes /\ UNCHANGED router_updates)
        => \A st \in health_status :
              ~ st.is_healthy => ~ \E r \in routes' : r.domain = st.domain ]_vars

\* ------------------------------------------------------------------------
\* C21  allocate is idempotent per branch: a call of allocate(project,
\* branch) that starts while preview_databases holds a row for that pair
\* returns Ok with that row's slot, and leaves the table as it was, with
\* exactly one row for the pair (so the slot of no other pair changes).
\* ------------------------------------------------------------------------
AllocateIdempotent ==
    [][ \A c \in Callers :
          \A r \in preview_databases :
             ( /\ pd_call[c].pc = "idle" /\ pd_call'[c].pc # "idle"
               /\ pd_call'[c].ret # "Deleted"
               /\ pd_call'[c].project_name = r.project_name
               /\ pd_call'[c].branch = r.branch )
             => /\ pd_call'[c].pc = "done" /\ pd_call'[c].ret = "Ok"
                /\ pd_call'[c].valkey_db = r.valkey_db
                /\ UNCHANGED preview_databases
                /\ Cardinality({x \in preview_databases' :
                                   /\ x.project_name = r.project_name
                                   /\ x.branch = r.branch}) = 1 ]_vars

\* Two calls for one pair have both returned Ok with the same slot, there is
\* one row for the pair, and another pair holds its own row.
AllocateIdempotentWitness ==
    /\ \A c \in Callers :
          /\ pd_call[c].pc = "done" /\ pd_call[c].ret = "Ok"
          /\ pd_call[c].project_name = "demo" /\ pd_call[c].branch = "pr-1"
          /\ \E r \in preview_databases :
                /\ r.project_name = "demo" /\ r.branch = "pr-1"
                /\ r.valkey_db = pd_call[c].valkey_db
    /\ \E r \in preview_databases : r.branch = "main"

\* ------------------------------------------------------------------------
\* C22  allocate_port under a collision: a call whose INSERT collides with
\* a concurrent call's while another port of the range is free still
\* returns a port, and a call of allocate_port only ever fails with
\* PortPoolExhausted or PortAllocationConflict, never with a database error.
\* ------------------------------------------------------------------------
AllocatePortRetries ==
    \A c \in Callers :
       (pa_call[c].op = "allocate_port" /\ pa_call[c].pc = "done")
       => pa_call[c].ret \in {"Ok", "PortPoolExhausted", "PortAllocationConflict"}

\* ------------------------------------------------------------------------
\* C23  The cancel endpoint.  The step that writes cancelled and answers
\* 200 finds the build queued or building at that moment; a request for a
\* build in success, failed or cancelled is answered 400 and one for an
\* unknown id 404, both leaving the builds table as it was; and no step
\* turns a build in status success into cancelled.
\* ------------------------------------------------------------------------
CancelOnlyRunningBuilds ==
    [][ /\ (cancel.pc = "update" /\ cancel'.pc = "done")
           => /\ BuildRow(cancel.build_id).status \in {"queued", "building"}
              /\ cancel'.resp = 200
        /\ (cancel.pc = "idle" /\ cancel'.pc # "idle")
           => /\ UNCHANGED builds
              /\ ~ BuildExists(cancel'.build_id) => cancel'.resp = 404
              /\ ( /\ BuildExists(cancel'.build_id)
                   /\ BuildRow(cancel'.build_id).status
                         \in {"success", "failed", "cancelled"} )
                 => cancel'.resp = 400
        /\ \A b \in builds : \A b2 \in builds' :
              (b.status = "success" /\ b2.id = b.id) => b2.status # "cancelled" ]_vars

\* ------------------------------------------------------------------------
\* C24  Static-site cutover is atomic: no step of deploy_site leaves the
\* published path {SITES_BASE_DIR}/{project}/{branch_slug}/{service} absent
\* once it exists; after every step of the deployer the path is there and
\* points to the store path it had or to the new one.
\* ------------------------------------------------------------------------
SiteCutoverAtomic ==
    [][ (dep' # dep /\ dep.results # <<>>)
        => \A l \in sites :
              Len(l.path) = 4
              => \E l2 \in sites' :
                    /\ l2.path = l.path
                    /\ l2.target \in {l.target, Head(dep.results).store_path} ]_vars

UnitFilesMatchActive ==
    Quiescent =>
        /\ \A u \in units :
              \E d \in deployments :
                 /\ d.status = "active" /\ d.port # NoInt
                 /\ UnitName(d.project_name, d.branch_slug, d.service_name) = u.name
        /\ \A d \in deployments :
              (d.status = "active" /\ d.port # NoInt)
              => \E u \in units :
                    u.name = UnitName(d.project_name, d.branch_slug, d.service_name)

\* ------------------------------------------------------------------------
\* C28  If the post-start health check of a service deploy does not pass,
\* deploy_service stops the unit and returns an error: the step inserts no
\* Deployment row, no PortAllocation row for the chosen port, and sends no
\* DeploymentActive update.
\* ------------------------------------------------------------------------
HealthCheckFailedStep ==
    /\ dep.pc = "health"
    /\ dep' # dep
    /\ health_passed' = health_passed
    /\ \A e \in health_passed :
          ~ (e.build_id = Head(dep.results).build_id
             /\ e.service_name = Head(dep.results).service_name)

AllEntriesBuilt(b) ==
    \A name \in work_dirs[b].services \cup work_dirs[b].static_sites :
       \E r \in build_results :
          r.build_id = b /\ r.service_name = name /\ r.status = "success"

\* The DeployRequests sent for build b (nothing receives them here).
DeployRequestsFor(b) ==
    {i \in 1 .. Len(deploy_queue) : deploy_queue[i].build_id = b}

MarkedSuccessStep(b) ==
    /\ \E r \in builds : r.id = b /\ r.status # "success"
    /\ \E r \in builds' : r.id = b /\ r.status = "success"

MarkedFailedStep(b) ==
    /\ \E r \in builds : r.id = b /\ r.status # "failed"
    /\ \E r \in builds' : r.id = b /\ r.status = "failed"

SuccessIffAllBuilt ==
    /\ [][ \A b \in BuildIds :
             /\ MarkedSuccessStep(b) => (AllEntriesBuilt(b) /\ DeployRequestsFor(b) = {})
             /\ (tasks[b].pc = "entry" /\ tasks[b].entries = <<>>
                 /\ tasks'[b] # tasks[b])
                   => (MarkedSuccessStep(b) <=> AllEntriesBuilt(b))
             /\ (tasks'[b].pc = "send_deploy" /\ tasks[b].pc # "send_deploy")
                   => MarkedSuccessStep(b)
             /\ MarkedFailedStep(b) => DeployRequestsFor(b) = {} ]_vars
    /\ [][ deploy_queue' # deploy_queue
           => \E b \in BuildIds :
                 /\ BuildExists(b)
                 /\ tasks[b].pc = "send_deploy" /\ tasks'[b].pc = "none"
                 /\ deploy_queue' = Append(deploy_queue,
                        [build_id |-> b,
                         project_name |-> BuildRow(b).project_name,
                         git_ref |-> BuildRow(b).git_ref]) ]_vars
    /\ [](\A b \in BuildIds :
             /\ Cardinality(DeployRequestsFor(b)) <= 1
             /\ DeployRequestsFor(b) # {}
                   => /\ AllEntriesBuilt(b)
                      /\ BuildRow(b).status \in {"success", "cancelled"}
             /\ (BuildExists(b) /\ BuildRow(b).status = "success"
                 /\ tasks[b].pc = "none")
                   => Cardinality(DeployRequestsFor(b)) = 1)

\* A build of a service and a static site was marked success and its one
\* DeployRequest was sent; another build was marked failed and has none.
SuccessIffAllBuiltWitness ==
    \E b \in BuildIds :
       /\ BuildExists(b) /\ BuildRow(b).status = "success"
       /\ tasks[b].pc = "none"
       /\ work_dirs[b].services # {} /\ work_dirs[b].static_sites # {}
       /\ Cardinality(DeployRequestsFor(b)) = 1
       /\ \E c \in BuildIds :
             /\ BuildExists(c) /\ BuildRow(c).status = "failed"
             /\ work_dirs[c].services # {}
             /\ DeployRequestsFor(c) = {}

\* ------------------------------------------------------------------------
\* C30  After the teardown worker has deleted a deployment row it sends
\* DeploymentRemoved with that deployment's domain on the routing update
\* channel: when process_teardown returns from the delete, the update is on
\* the channel.
\* ------------------------------------------------------------------------
TeardownSendsDeploymentRemoved ==
    [][ (td.pc = "delete" /\ td'.pc = "recv")
        => \E i \in 1 .. Len(router_updates') :
              /\ router_updates'[i].type = "DeploymentRemoved"
              /\ router_updates'[i].domain = td.deployment.domain ]_vars

\* ------------------------------------------------------------------------
\* DNS: DnsManager and the dns_records table
\* ------------------------------------------------------------------------

\* The most provider records the model lets the provider hand out.
MaxProviderRecords == 4

\* The custom domains of the model; the last one lies in no configured zone.
DnsDomains == {"docs.example.org", "app.example.org", "site.other.net"}

\* get_provider_for_domain: the domain ends with a configured zone.
HasProviderForDomain(domain) == domain \in {"docs.example.org", "app.example.org"}

\* What the database checks on INSERT INTO dns_records: the unique key on
\* domain and fk_dns_records_deployment_id.
DnsInsertAllowed(domain, deployment_id) ==
    /\ ~ \E r \in dns_records : r.domain = domain
    /\ deployment_id = NoInt \/ \E d \in deployments : d.id = deployment_id

DnsReturn(op, deployment_id, domain, pending, ret) ==
    [pc |-> "idle", op |-> op, deployment_id |-> deployment_id, domain |-> domain,
     pending |-> pending, ret |-> ret]

\* create_record_for_deployment up to its first await.
create_record_for_deployment_begin(deployment_id, domain) ==
    /\ dns_call.pc = "idle"
    /\ nextProviderRecordId + 1 <= MaxProviderRecords
    /\ dns_call' = IF HasProviderForDomain(domain)
                   THEN [pc |-> "provider", op |-> "create",
                         deployment_id |-> deployment_id, domain |-> domain,
                         pending |-> <<>>, ret |-> Null]
                   ELSE DnsReturn("create", deployment_id, domain, <<>>,
                                  "NoProviderForDomain")
    /\ UNCHANGED <<dns_records, nextDnsRecordId, provider_records,
                   nextProviderRecordId, storeVars, buildStoreVars, buildTaskVars, deploy_queue,
                   osVars, deployTaskVars, monitorVars, allocVars, reloadVars>>

\* The record type the call is at: A first, then AAAA.
DnsRecordTypeAt(call) == IF call.pending = <<>> THEN "A" ELSE "AAAA"

\* provider.create_record(domain, A | AAAA, ip).await?
create_record_for_deployment_provider(ok) ==
    /\ dns_call.pc = "provider"
    /\ IF ok
       THEN /\ provider_records' = provider_records \cup
                  {[provider_record_id |-> nextProviderRecordId,
                    name |-> dns_call.domain,
                    record_type |-> DnsRecordTypeAt(dns_call)]}
            /\ nextProviderRecordId' = nextProviderRecordId + 1
            /\ dns_call' = [dns_call EXCEPT !.pc = "store",
                              !.pending = Append(@, nextProviderRecordId)]
       ELSE /\ dns_call' = DnsReturn("create", dns_call.deployment_id,
                              dns_call.domain, dns_call.pending, "DnsProvider")
            /\ UNCHANGED <<provider_records, nextProviderRecordId>>
    /\ UNCHANGED <<dns_records, nextDnsRecordId, storeVars, buildStoreVars, buildTaskVars, deploy_queue,
                   osVars, deployTaskVars, monitorVars, allocVars, reloadVars>>

\* store.dns_records().create(domain, deployment_id, id, type, ip).await?
create_record_for_deployment_store ==
    /\ dns_call.pc = "store"
    /\ LET record_type == IF Len(dns_call.pending) = 1 THEN "A" ELSE "AAAA" IN
       IF DnsInsertAllowed(dns_call.domain, dns_call.deployment_id)
       THEN /\ dns_records' = dns_records \cup
                  {[id |-> nextDnsRecordId, domain |-> dns_call.domain,
                    deployment_id |-> dns_call.deployment_id,
                    provider_record_id |-> dns_call.pending[Len(dns_call.pending)],
                    record_type |-> record_type]}
            /\ nextDnsRecordId' = nextDnsRecordId + 1
            /\ dns_call' = IF record_type = "A"
                           THEN [dns_call EXCEPT !.pc = "provider"]
                           ELSE DnsReturn("create", dns_call.deployment_id,
                                    dns_call.domain, dns_call.pending, "Ok")
       ELSE /\ dns_call' = DnsReturn("create", dns_call.deployment_id,
                              dns_call.domain, dns_call.pending, "Database")
            /\ UNCHANGED <<dns_records, nextDnsRecordId>>
    /\ UNCHANGED <<provider_records, nextProviderRecordId, storeVars, buildStoreVars, buildTaskVars, deploy_queue,
                   osVars, deployTaskVars, monitorVars,
                   allocVars, reloadVars>>

\* delete_record_for_deployment: find_by_deployment.
delete_record_for_deployment_find(deployment_id) ==
    /\ dns_call.pc = "idle"
    /\ LET rows == {r \in dns_records : r.deployment_id = deployment_id} IN
       dns_call' = IF rows = {}
                   THEN DnsReturn("delete", deployment_id, Null, <<>>, "Ok")
                   ELSE [pc |-> "delete", op |-> "delete",
                         deployment_id |-> deployment_id, domain |-> Null,
                         pending |-> [i \in 1 .. Len(SeqById(rows)) |->
                                        SeqById(rows)[i].id],
                         ret |-> Null]
    /\ dns_call # dns_call'
    /\ UNCHANGED <<dns_records, nextDnsRecordId, provider_records,
                   nextProviderRecordId, storeVars, buildStoreVars, buildTaskVars, deploy_queue,
                   osVars, deployTaskVars, monitorVars, allocVars, reloadVars>>

\* One turn of the loop: provider.delete_record (an error is logged), then
\* the delete of the row.
delete_record_for_deployment_next(ok) ==
    /\ dns_call.pc = "delete"
    /\ LET record == CHOOSE r \in dns_records : r.id = Head(dns_call.pending) IN
       /\ provider_records' =
             IF ok THEN {r \in provider_records :
                            r.provider_record_id # record.provider_record_id}
                   ELSE provider_records
       /\ dns_records' = {r \in dns_records : r.id # record.id}
       /\ dns_call' = IF Tail(dns_call.pending) = <<>>
                      THEN DnsReturn("delete", dns_call.deployment_id, Null, <<>>, "Ok")
                      ELSE [dns_call EXCEPT !.pending = Tail(@)]
    /\ UNCHANGED <<nextDnsRecordId, nextProviderRecordId, storeVars, buildStoreVars, buildTaskVars, deploy_queue,
                   osVars, deployTaskVars, monitorVars,
                   allocVars, reloadVars>>

\* Specification of the DNS manager over the three deployed rows.
InitDns ==
    /\ InitDeployed(HookDeployments)
    /\ nextDeploymentId = 4
    /\ preview_databases = {}
    /\ InitIdleCallers
    /\ InitDnsIdle
    /\ InitReloadIdle
    /\ InitBuildIdle
    /\ teardown_queue = <<>>
    /\ teardown_sent = {}
    /\ deploy_queue = <<>>
    /\ router_updates = <<>>
    /\ dep = DepIdle
    /\ td = TdIdle
    /\ cleanup = CleanupIdle
    /\ port_allocator = {}
    /\ routes = {}
    /\ InitMonitorIdle

NextDns ==
    \/ \E id \in 1 .. 3, domain \in DnsDomains :
          create_record_for_deployment_begin(id, domain)
    \/ \E ok \in BOOLEAN : create_record_for_deployment_provider(ok)
    \/ create_record_for_deployment_store
    \/ \E id \in 1 .. 3 : delete_record_for_deployment_find(id)
    \/ \E ok \in BOOLEAN : delete_record_for_deployment_next(ok)

SpecDns == InitDns /\ [][NextDns]_vars

\* ------------------------------------------------------------------------
\* C31  A create_record_for_deployment that created its two records at the
\* provider returns Ok and leaves exactly two dns_records rows for the
\* domain, one of type A and one of type AAAA, both referring to the
\* deployment id and to the two provider records.
\* ------------------------------------------------------------------------
DnsRecordsPaired ==
    (dns_call.pc = "idle" /\ dns_call.op = "create" /\ Len(dns_call.pending) = 2)
    => /\ dns_call.ret = "Ok"
       /\ LET rows == {r \in dns_records : r.domain = dns_call.domain} IN
          /\ Cardinality(rows) = 2
          /\ {r.record_type : r \in rows} = {"A", "AAAA"}
          /\ \A r \in rows : r.deployment_id = dns_call.deployment_id
          /\ {r.provider_record_id : r \in rows} =
                {dns_call.pending[1], dns_call.pending[2]}

\* ------------------------------------------------------------------------
\* C32  release_port is an idempotent delete-by-port: it returns Ok, after
\* it the port has no row (it is reported available and is among the ports
\* a later allocation can return), the rows of the other ports are
\* untouched, and for a port without a row the table is left unchanged.
\* ------------------------------------------------------------------------
ReleasePortIdempotent ==
    [][ \A c \in Callers :
          (pa_call[c].pc = "idle" /\ pa_call'[c].op = "release_port")
          => LET p == pa_call'[c].port IN
             /\ pa_call'[c].ret = "Ok"
             /\ p \notin {r.port : r \in port_allocations'}
             /\ FirstFreePort({r.port : r \in port_allocations'}) \in PORT_MIN .. p
             /\ port_allocations' = {r \in port_allocations : r.port # p}
             /\ (p \notin AllocatedPorts => port_allocations' = port_allocations) ]_vars

\* release_port of a port has returned Ok, and an allocate_port whose INSERT
\* came after it has returned that port.
ReleasePortWitness ==
    \E c, c2 \in Callers :
       /\ pa_call[c].op = "release_port" /\ pa_call[c].pc = "done"
       /\ pa_call[c2].op = "allocate_port" /\ pa_call[c2].ret = "Ok"
       /\ pa_call[c2].port = pa_call[c].port
       /\ pa_call[c].port \in AllocatedPorts
       /\ pa_live[pa_call[c].port] = 1

\* ------------------------------------------------------------------------
\* C33  After a service redeploy that replaced a predecessor has returned
\* success, the unit serving the new Active deployment is started: the
\* drain step, which stops the predecessor's unit, leaves running the unit
\* the new deployment runs in.
\* ------------------------------------------------------------------------
DrainKeepsNewUnitRunning ==
    [][ (dep.pc = "drain" /\ dep' # dep)
        => LET name == UnitName(dep.request.project_name,
                                sanitize_identifier(dep.request.git_ref),
                                Head(dep.results).service_name)
           IN  (\E d \in deployments : d.id = dep.new_id /\ d.status = "active")
               /\ (\E u \in units : u.name = name /\ u.running)
               => \E u \in units' : u.name = name /\ u.running ]_vars

\* ------------------------------------------------------------------------
\* C34  If the deploy of a new commit of a service fails at a step (the
\* preview database or the unit, the health check, the row insert, the port
\* registration), the predecessor is unaffected: its row is still Active,
\* the unit still runs the predecessor's artifact on the port of its row,
\* and the routing table is as it was.
\* ------------------------------------------------------------------------

\* deploy_service returns an error from the step taken.
DeployServiceFailedStep ==
    /\ dep' # dep
    /\ \/ dep.pc = "start" /\ dep'.pc # "health"
       \/ dep.pc = "health" /\ dep'.pc # "register"
       \/ dep.pc = "register" /\ port_allocations' = port_allocations

FailedDeployKeepsPredecessor ==
    [][ (DeployServiceFailedStep
         /\ \E d \in deployments : d = dep.existing /\ d.status = "active")
        => /\ \E d \in deployments' : d = dep.existing
           /\ \E u \in units' :
                 /\ u.name = UnitName(dep.existing.project_name,
                                      dep.existing.branch_slug,
                                      dep.existing.service_name)
                 /\ u.running
                 /\ u.store_path = dep.existing.store_path
                 /\ u.port = dep.existing.port
           /\ routes' = routes ]_vars

\* ------------------------------------------------------------------------
\* C35  Two commits A then B of one branch were accepted in that order and
\* both builds succeeded (builds 1 and 2 of SpecDeploy).  Once both
\* deployment requests were worked off with every health check passed,
\* nothing was torn down and the pipeline is at rest, the Active deployment
\* of each service of the branch carries B's artifact.
\* ------------------------------------------------------------------------
LatestCommitDeployed ==
    (/\ Quiescent
     /\ teardown_sent = {}
     /\ \A b \in DeployedBuilds : finished[b] = "Ok"
     /\ {e.build_id : e \in health_passed} = DeployedBuilds)
    => \A name \in DeployedManifest.services \cup DeployedManifest.static_sites :
          \E d \in deployments :
             /\ d.status = "active"
             /\ d.project_name = "demo" /\ d.git_ref = CommitRef(2)
             /\ d.service_name = name
             /\ d.store_path = StorePath(2, name)

\* ------------------------------------------------------------------------
\* Specification of a branch deletion beside the deployer: the state of
\* InitDeploy (two successful builds of pr-1, one DeployRequest waiting, one
\* about to be sent), with the deliveries that delete the branch or close
\* the pull request, the deployer, the teardown worker and the router.
\* ------------------------------------------------------------------------

NextDelete ==
    \/ \E h \in Handlers :
          handle_webhook_mark_for_teardown(h, "demo", "valid", "push", Null, "pr-1")
    \/ \E h \in Handlers :
          handle_webhook_mark_for_teardown(h, "demo", "valid", "pull_request",
                                           "closed", PrRef(1))
    \/ \E h \in Handlers : handle_webhook_send_teardown(h)
    \/ \E b \in BuildIds : process_build_send_deploy(b)
    \/ run_deployer_recv
    \/ deploy_service_prepare
    \/ deploy_service_start
    \/ \E passed \in BOOLEAN : deploy_service_health(passed)
    \/ deploy_service_register
    \/ deploy_service_drain
    \/ deploy_site_symlink
    \/ deploy_site_remove
    \/ deploy_site_rename
    \/ deploy_site_insert
    \/ run_teardown_worker_recv
    \/ process_teardown_resources
    \/ process_teardown_release
    \/ process_teardown_mark
    \/ process_teardown_delete
    \/ run_update_handler_recv

SpecDelete == InitDeploy /\ [][NextDelete]_vars

\* ------------------------------------------------------------------------
\* C36  After a branch-deletion webhook (or PR close) for a (project,
\* branch) has been handled and the pipeline has quiesced, no Active
\* deployment exists for that branch, also when a DeployRequest of a build of
\* that branch was waiting, or about to be sent, as the deletion arrived.
\* ------------------------------------------------------------------------
DeletedBranchHasNoActive ==
    (/\ Quiescent
     /\ \A h \in Handlers : wh[h].pc \in {"idle", "done"}
     /\ \E h \in Handlers : wh[h].pc = "done" /\ wh[h].kind = "teardown")
    => \A h \in Handlers :
          (wh[h].pc = "done" /\ wh[h].kind = "teardown")
          => ~ \E d \in deployments :
                  /\ d.status = "active"
                  /\ d.project_name = wh[h].project_name
                  /\ d.branch = wh[h].git_ref

\* ------------------------------------------------------------------------
\* C37  No deployment is ever created from a cancelled build: in every
\* reachable state a build whose status is cancelled has no DeployRequest in
\* the deploy queue, however the cancel endpoint interleaves with the build
\* task's final status write.
\* ------------------------------------------------------------------------
CancelledBuildNotDeployed ==
    \A b \in BuildIds :
       (BuildExists(b) /\ BuildRow(b).status = "cancelled")
       => DeployRequestsFor(b) = {}

\* ------------------------------------------------------------------------
\* Router: RoutingTable::load_from_deployments_with_services step by step,
\* under the table's RwLock, beside route_request
\* ------------------------------------------------------------------------

MaxReloadRows == 2

\* Option<services::Model> = None
NoService == [project_name |-> Null, name |-> Null, spa |-> FALSE, custom_domain |-> NoPath]

\* The (deployments::Model, Option<services::Model>) pairs a reload is
\* called with: the three installed deployments, a later deployment of docs
\* on the same branch, a static deployment without store path, and a
\* deployment whose service is None.
ReloadPairs ==
    {[deployment |-> d, service |-> ServiceOf(d)] : d \in HookDeployments}
    \cup {[deployment |-> NewDeployment(4, HookRequest(1), "docs", StorePath(2, "docs"), NoInt),
           service |-> ServiceOf(NewDeployment(4, HookRequest(1), "docs", NoPath, NoInt))],
          [deployment |-> NewDeployment(5, HookRequest(2), "docs", NoPath, NoInt),
           service |-> ServiceOf(NewDeployment(5, HookRequest(2), "docs", NoPath, NoInt))],
          [deployment |-> NewDeployment(6, HookRequest(2), "api", StorePath(3, "api"), PORT_MIN + 2),
           service |-> NoService]}

\* The vectors of at most MaxReloadRows pairs, no two of one
\* (project_name, service_name, branch).
ReloadInputs ==
    UNION {{rows \in [1 .. n -> ReloadPairs] :
              \A i, j \in 1 .. n :
                 (/\ rows[i].deployment.project_name = rows[j].deployment.project_name
                  /\ rows[i].deployment.service_name = rows[j].deployment.service_name
                  /\ rows[i].deployment.branch = rows[j].deployment.branch) => i = j}
           : n \in 0 .. MaxReloadRows}

\* service.ok_or_else(..)? and store_path.ok_or_else(..)?: the pairs on
\* which the loop returns Err.
LoadRowFails(pair) ==
    \/ pair.service = NoService
    \/ pair.deployment.port = NoInt /\ pair.deployment.store_path = NoPath

\* The table a call ends with when no pair fails.
LoadedTable(rows) ==
    load_from_deployments_with_services([i \in 1 .. Len(rows) |-> rows[i].deployment])

\* HashMap::get(domain).cloned()
RouteAt(table, domain) ==
    IF \E r \in table : r.domain = domain
    THEN CHOOSE r \in table : r.domain = domain
    ELSE NoRoute

\* self.routes.write().await; routes.clear()
load_from_deployments_with_services_clear(rows) ==
    /\ rl.pc = "idle"
    /\ routes_lock = "free"
    /\ routes_lock' = "write"
    /\ routes' = {}
    /\ rl' = [pc |-> "loop", rows |-> rows, before |-> routes,
              after |-> IF \E i \in 1 .. Len(rows) : LoadRowFails(rows[i])
                        THEN {} ELSE LoadedTable(rows),
              ret |-> Null]
    /\ UNCHANGED <<storeVars, buildStoreVars, buildTaskVars, deploy_queue, osVars,
                   teardown_queue, router_updates, dep, td, cleanup, port_allocator,
                   teardown_sent, health_passed, allocVars, monitorVars, dnsVars,
                   lookup>>

\* One turn of the for loop: Err through ? (the write guard is dropped on
\* return), or the insert under the domain and the custom domain.
load_from_deployments_with_services_row ==
    /\ rl.pc = "loop"
    /\ rl.rows # <<>>
    /\ LET pair == Head(rl.rows)
           d    == pair.deployment
           sv   == pair.service
           auto == RouteInsert(routes,
                      RouteOf(d.id, d.domain, d.port, d.store_path, sv.spa))
       IN  IF LoadRowFails(pair)
           THEN /\ rl' = [rl EXCEPT !.pc = "idle", !.ret = "Err"]
                /\ routes_lock' = "free"
                /\ UNCHANGED routes
           ELSE /\ rl' = [rl EXCEPT !.rows = Tail(rl.rows)]
                /\ routes' = IF sv.custom_domain # NoPath
                             THEN RouteInsert(auto,
                                     RouteOf(d.id, sv.custom_domain, d.port,
                                             d.store_path, sv.spa))
                             ELSE auto
                /\ UNCHANGED routes_lock
    /\ UNCHANGED <<storeVars, buildStoreVars, buildTaskVars, deploy_queue, osVars,
                   teardown_queue, router_updates, dep, td, cleanup, port_allocator,
                   teardown_sent, health_passed, allocVars, monitorVars, dnsVars,
                   lookup>>

\* Ok(()) after the last pair; the write guard is dropped.
load_from_deployments_with_services_return ==
    /\ rl.pc = "loop"
    /\ rl.rows = <<>>
    /\ rl' = [rl EXCEPT !.pc = "idle", !.ret = "Ok"]
    /\ routes_lock' = "free"
    /\ UNCHANGED <<storeVars, buildStoreVars, buildTaskVars, deploy_queue, osVars,
                   deployTaskVars, allocVars, monitorVars, dnsVars, lookup>>

\* route_request: table.get(domain) is called; during says whether a
\* reload holds the table at that moment.
route_request_call(domain) ==
    /\ lookup.pc = "idle"
    /\ lookup' = [pc |-> "get", domain |-> domain, route |-> NoRoute,
                  during |-> rl.pc = "loop"]
    /\ UNCHANGED <<storeVars, buildStoreVars, buildTaskVars, deploy_queue, osVars,
                   deployTaskVars, allocVars, monitorVars, dnsVars, routes_lock, rl>>

\* The read lock of get as it would be if readers did not wait for a writer.
route_request_get_NoLock ==
    /\ lookup.pc = "get"
    /\ lookup' = [lookup EXCEPT !.pc = "returned",
                                !.route = RouteAt(routes, lookup.domain)]
    /\ UNCHANGED <<storeVars, buildStoreVars, buildTaskVars, deploy_queue, osVars,
                   deployTaskVars, allocVars, monitorVars, dnsVars, routes_lock, rl>>

\* RoutingTable::get: self.routes.read().await waits while the write guard
\* is held, then routes.get(domain).cloned().
route_request_get ==
    /\ lookup.pc = "get"
    /\ routes_lock = "free"
    /\ lookup' = [lookup EXCEPT !.pc = "returned",
                                !.route = RouteAt(routes, lookup.domain)]
    /\ UNCHANGED <<storeVars, buildStoreVars, buildTaskVars, deploy_queue, osVars,
                   deployTaskVars, allocVars, monitorVars, dnsVars, routes_lock, rl>>

\* The response is sent (proxy, static file or 404).
route_request_respond ==
    /\ lookup.pc = "returned"
    /\ lookup' = [lookup EXCEPT !.pc = "idle"]
    /\ UNCHANGED <<storeVars, buildStoreVars, buildTaskVars, deploy_queue, osVars,
                   deployTaskVars, allocVars, monitorVars, dnsVars, routes_lock, rl>>

\* The domains requests are made for.
RequestDomains ==
    {p.deployment.domain : p \in ReloadPairs} \cup {<<"docs.example.org">>}

InitReload ==
    /\ InitDeployed(HookDeployments)
    /\ nextDeploymentId = 4
    /\ preview_databases = {}
    /\ InitIdleCallers
    /\ InitDnsIdle
    /\ InitReloadIdle
    /\ InitBuildIdle
    /\ teardown_queue = <<>>
    /\ teardown_sent = {}
    /\ deploy_queue = <<>>
    /\ router_updates = <<>>
    /\ dep = DepIdle
    /\ td = TdIdle
    /\ cleanup = CleanupIdle
    /\ port_allocator = {}
    /\ routes \in LoadFromDeployments
    /\ InitMonitorIdle

NextReload ==
    \/ \E rows \in ReloadInputs : load_from_deployments_with_services_clear(rows)
    \/ load_from_deployments_with_services_row
    \/ load_from_deployments_with_services_return
    \/ \E domain \in RequestDomains : route_request_call(domain)
    \/ route_request_get
    \/ route_request_respond

SpecReload == InitReload /\ [][NextReload]_vars

\* ------------------------------------------------------------------------
\* C38  If a full reload fails part-way (a deployment has no service row,
\* or a static deployment has no store path), the routing table holds
\* exactly the routes it held before the reload started.
\* ------------------------------------------------------------------------
FailedReloadKeepsRoutes ==
    [][ (rl.pc = "loop" /\ rl'.ret = "Err") => routes' = rl.before ]_vars

\* ------------------------------------------------------------------------
\* C39  A lookup that runs concurrently with a successful full reload never
\* observes the cleared or half-filled table: for a domain that is routed
\* both before and after the reload, get returns the old route or the new
\* route and never none.
\* ------------------------------------------------------------------------
GetSeesOldOrNewRoute ==
    [][ (lookup.pc = "get" /\ lookup'.pc = "returned"
         /\ rl.ret # "Err"
         /\ (\A i \in 1 .. Len(rl.rows) : ~ LoadRowFails(rl.rows[i]))
         /\ RouteAt(rl.before, lookup.domain) # NoRoute
         /\ RouteAt(rl.after, lookup.domain) # NoRoute)
        => lookup'.route \in {RouteAt(rl.before, lookup.domain),
                              RouteAt(rl.after, lookup.domain)} ]_vars

\* A get called while a reload held the table has returned the new route
\* of a domain whose route the reload replaced.
GetSeesOldOrNewRouteWitness ==
    /\ lookup.pc = "returned"
    /\ lookup.during
    /\ rl.ret = "Ok"
    /\ RouteAt(rl.before, lookup.domain) # NoRoute
    /\ RouteAt(rl.after, lookup.domain) # RouteAt(rl.before, lookup.domain)
    /\ lookup.route = RouteAt(rl.after, lookup.domain)
    /\ lookup.route # NoRoute

\* ------------------------------------------------------------------------
\* C40  The auxiliary-DB allocation of a (project, branch) is never deleted
\* while a deployment of any service on that branch is still Active: tearing
\* down one service of a branch does not take the slot away from another
\* service of the same branch.
\* ------------------------------------------------------------------------
AuxDbKeptWhileBranchActive ==
    [][ \A r \in preview_databases :
           (r \notin preview_databases')
           => ~ \E d \in deployments' :
                   /\ d.status = "active"
                   /\ d.project_name = r.project_name
                   /\ d.branch = r.branch ]_vars

\* The teardown of one deployment of a branch has finished, another
\* deployment of the branch is Active and the branch still has its slot.
AuxDbKeptWhileBranchActiveWitness ==
    /\ td.pc = "recv" /\ td.result = "Ok"
    /\ FindDeployment(td.deployment.id).id = NoInt
    /\ \E d \in deployments :
          /\ d.status = "active"
          /\ d.project_name = td.deployment.project_name
          /\ d.branch = td.deployment.branch
          /\ d.service_name # td.deployment.service_name
    /\ \E r \in preview_databases :
          /\ r.project_name = td.deployment.project_name
          /\ r.branch = td.deployment.branch

====
